---------------------------- MODULE Spec2Model ----------------------------
(***************************************************************************)
(* Model of the clinic scraper's reconciliation pipeline:                  *)
(*   - SheetsWriter.append       (app/services/sheets_writer.py)           *)
(*   - ClaudeValidator           (app/services/claude_validator.py)        *)
(* A sheet is a sequence of rows, row 1 being the header.  A cell is a     *)
(* string; a row keeps the three columns append reads (No., name, URL) and *)
(* a phone column that lies outside the written range A:N.                 *)
(***************************************************************************)
EXTENDS Integers, Sequences, FiniteSets, TLC

VARIABLES
    sheet,      \* the worksheet: what get_all_values() returns
    before,     \* history: the worksheet as the last recorded append call
                \* read it (the initial worksheet while none is recorded)
    lastIn,     \* history: the clinics argument of the last append call
    lastRet,    \* history: the value the last append call returned
    called,     \* history: append has been called at least once
    again,      \* history: append has been called at least twice
    prevIn,     \* history: the clinics argument of the call before the last
    prevRet,    \* history: the value returned by the call before the last
    distinct0,  \* history: the initial sheet's valid rows had distinct URLs
    totalNew    \* history: sum of the values returned by append so far

sinkVars == <<sheet, before, lastIn, lastRet, called, again, prevIn, prevRet,
              distinct0, totalNew>>

VARIABLES
    hasClient,  \* ClaudeValidator.client is not None
    vClinics,   \* the clinics argument of validate_batch
    vPc,        \* "idle", "batch" (in the loop), "done" (returned), "raised"
    vI,         \* the loop variable i: 0-based start of the current batch
    vAttempt,   \* tenacity's attempt number for the current batch
    vResults,   \* the list results
    vCalls,     \* history: calls of client.messages.create so far
    vAnyOk,     \* history: some call returned a body that parsed
    vFailed,    \* history: some attempt ended in an exception
    vInRange,   \* history: every judgment received had 0 <= index < len(batch)
    vInCount    \* history: the judgments received with 0 <= index < len(batch)

valVars == <<hasClient, vClinics, vPc, vI, vAttempt, vResults, vCalls, vAnyOk,
             vFailed, vInRange, vInCount>>

\* ExclusionFilter (exclusion_filter.py)
VARIABLES
    fKeywords,  \* ExclusionFilter._keywords
    fClinics,   \* the clinics argument of filter
    fResult,    \* the list filter returned
    fPc         \* "idle", "done" (filter returned)

filtVars == <<fKeywords, fClinics, fResult, fPc>>

\* scrape.generate (routes/scrape.py)
VARIABLES
    regions,            \* scrape_request.regions
    oPc,                \* the position of generate, see the actions
    oI,                 \* the number of the region of the loop, from 1
    oClinics,            \* clinics, then filtered, then valid_clinics
    total_found,
    total_excluded,
    total_new,
    all_valid_clinics,
    events              \* the events generate has yielded

orchVars == <<regions, oPc, oI, oClinics, total_found, total_excluded,
              total_new, all_valid_clinics, events>>

\* One call of SheetsWriter.append under its retry decorator
VARIABLES
    spreadsheet_id,     \* config.google_sheets_id ("" when not set)
    credentials,        \* config.google_sheets_credentials: "", "bad", "ok"
    aIn,                \* the clinics argument
    aPc,                \* "idle", "retrying", "returned", "raised"
    aAttempt,           \* tenacity's attempt number
    aRaised,            \* the exception that left append ("" when none)
    aRet,               \* the value append returned
    aReads,             \* history: get_all_values calls answered
    aWrites             \* history: update calls the backend applied

callVars == <<spreadsheet_id, credentials, aIn, aPc, aAttempt, aRaised, aRet,
              aReads, aWrites>>

\* GoogleMapsScraper._extract_clinic_info and the detail panel of the page
VARIABLES
    pTitle,         \* the text of h1.DUwDvf (<<>> when empty or absent)
    pShown,         \* the listing whose fields the panel holds: "none", "A", "B"
    pPending,       \* a click on listing B is yet to be rendered
    pTitleB,        \* the title the panel gives listing B
    xName,          \* name: the aria-label of the clicked element (listing B)
    prev_h1,        \* the title read before the click
    xPc,            \* the position of _extract_clinic_info, see the actions
    attempt,        \* the poll loop's attempt, from 0
    panel_ready,
    final_h1,       \* the last title read after the poll loop
    xTimedOut,      \* history: the poll loop ended without a match
    xFinalChecked,  \* history: the comparison of google_maps.py:522-523 was made
    xReadFrom       \* history: the listing each field read so far came from

panelVars == <<pTitle, pShown, pPending, pTitleB, xName, prev_h1, xPc, attempt,
               panel_ready, final_h1, xTimedOut, xFinalChecked, xReadFrom>>

\* One call of GoogleMapsScraper.search: the session, the page, the teardown
VARIABLES
    playwright,     \* the automation runtime: "none", "open", "closed", "left"
    browser,        \* the browser, likewise
    context,        \* the browsing context with its page, likewise
    qPc,            \* the position of _search_impl, see the actions
    qHasTerm,       \* query contains one of retry_keywords
    feed,           \* page.query_selector('[role="feed"]') found an element
    h1_text,        \* the text of the page's h1: "", "results" or "name"
    qGotos,         \* history: page.goto calls made
    qTimedOut,      \* history: the navigations that timed out
    qClinics,       \* len(clinics)
    qRaised,        \* the exception on its way out of _search_impl ("" if none)
    tSteps          \* history: the cleanup steps made and their outcomes

searchVars == <<playwright, browser, context, qPc, qHasTerm, feed, h1_text,
                qGotos, qTimedOut, qClinics, qRaised, tSteps>>

\* The callers of search and the module's executor
VARIABLES
    wState,         \* of each caller: "idle", "queued", "running", "done"
    wQueue          \* the executor's work queue: submitted calls, in order

poolVars == <<wState, wQueue>>

\* Two append calls on one worksheet, each a read followed by a write
VARIABLES
    rPc,            \* of each writer: "idle", "read", "done"
    rIn,            \* of each writer: its clinics argument
    rValues,        \* of each writer: all_values as it read them
    rOverlap        \* history: both writers had read before either wrote

raceVars == <<rPc, rIn, rValues, rOverlap>>

\* One call of GoogleMapsScraper._scroll_results
VARIABLES
    results_container,  \* the feed element was found
    max_results,
    sCount,             \* the listing anchors the page holds now
    prev_count,
    scroll_attempts,
    sPc,                \* "idle", "count", "scroll", "done"
    sSeen,              \* history: the values of current_count, in order
    sScrolls            \* history: the scrolls made

scrollVars == <<results_container, max_results, sCount, prev_count,
                scroll_attempts, sPc, sSeen, sScrolls>>

\* The loop of _search_impl over the listing anchors of a page of results
VARIABLES
    mResults,       \* results: the anchors found after scrolling, in page order
    mMaxResults,    \* max_results of the call
    mI,             \* anchors the loop has gone through
    mClinics,       \* clinics: the anchor of each record appended, in order
    mOutcomes,      \* history: each anchor gone through and how it ended
    mPc             \* "idle", "loop", "returned"

loopVars == <<mResults, mMaxResults, mI, mClinics, mOutcomes, mPc>>

\* _click_element_robust within one call of _extract_clinic_info
VARIABLES
    kScroll,        \* scroll_into_view_if_needed: "" (not yet), "ok", "failed"
    kTried          \* history: the click methods tried and how each ended

clickVars == <<kScroll, kTried>>

\* The calls of SheetsWriter.append made with one argument
VARIABLES
    aCalls          \* history: the calls made, the first one included

againVars == <<aCalls>>

lateVars == <<loopVars, clickVars, againVars>>

moreVars == <<searchVars, poolVars, raceVars, scrollVars, lateVars>>

restVars == <<filtVars, orchVars, callVars, panelVars, moreVars>>

vars == <<sinkVars, valVars, restVars>>

\* No ExclusionFilter.filter call is under way
FilterIdle ==
    /\ fKeywords = <<>>
    /\ fClinics = <<>>
    /\ fResult = <<>>
    /\ fPc = "idle"

\* generate has not been called
OrchIdle ==
    /\ regions = <<>>
    /\ oPc = "idle"
    /\ oI = 1
    /\ oClinics = <<>>
    /\ total_found = 0
    /\ total_excluded = 0
    /\ total_new = 0
    /\ all_valid_clinics = <<>>
    /\ events = <<>>

\* append has not been called
CallIdle ==
    /\ spreadsheet_id = "sid"
    /\ credentials = "ok"
    /\ aIn = <<>>
    /\ aPc = "idle"
    /\ aAttempt = 1
    /\ aRaised = ""
    /\ aRet = 0
    /\ aReads = 0
    /\ aWrites = 0

\* _extract_clinic_info has not been called
PanelIdle ==
    /\ pTitle = <<>>
    /\ pShown = "none"
    /\ pPending = FALSE
    /\ pTitleB = <<>>
    /\ xName = <<>>
    /\ prev_h1 = <<>>
    /\ xPc = "idle"
    /\ attempt = 0
    /\ panel_ready = FALSE
    /\ final_h1 = <<>>
    /\ xTimedOut = FALSE
    /\ xFinalChecked = FALSE
    /\ xReadFrom = <<>>

\* search has not been called
SearchIdle ==
    /\ playwright = "none"
    /\ browser = "none"
    /\ context = "none"
    /\ qPc = "idle"
    /\ qHasTerm = FALSE
    /\ feed = FALSE
    /\ h1_text = ""
    /\ qGotos = 0
    /\ qTimedOut = {}
    /\ qClinics = 0
    /\ qRaised = ""
    /\ tSteps = <<>>

\* Nobody calls search
PoolIdle ==
    /\ wState = <<>>
    /\ wQueue = <<>>

\* No second writer
RaceIdle ==
    /\ rPc = <<>>
    /\ rIn = <<>>
    /\ rValues = <<>>
    /\ rOverlap = FALSE

\* _scroll_results has not been called
ScrollIdle ==
    /\ results_container = FALSE
    /\ max_results = 1
    /\ sCount = 0
    /\ prev_count = 0
    /\ scroll_attempts = 0
    /\ sPc = "idle"
    /\ sSeen = <<>>
    /\ sScrolls = 0

\* The loop over the anchors has not been entered
LoopIdle ==
    /\ mResults = <<>>
    /\ mMaxResults = 1
    /\ mI = 0
    /\ mClinics = <<>>
    /\ mOutcomes = <<>>
    /\ mPc = "idle"

\* _click_element_robust has not been entered
ClickIdle ==
    /\ kScroll = ""
    /\ kTried = <<>>

\* append is called once
AgainIdle == aCalls = 1

LateIdle == LoopIdle /\ ClickIdle /\ AgainIdle

MoreIdle == SearchIdle /\ PoolIdle /\ RaceIdle /\ ScrollIdle /\ LateIdle

\* The components a specification of the sink or the validator leaves alone
RestIdle == FilterIdle /\ OrchIdle /\ CallIdle /\ PanelIdle /\ MoreIdle

-----------------------------------------------------------------------------
(* Bounds of the model *)

MaxInitRows == 3    \* rows below the header of a sheet given to one call
MaxRunRows == 2     \* rows below the header of a sheet a run starts from
MaxBatch == 2       \* records in one clinics argument
MaxClinics == 3     \* records given to validate_batch
BatchSize == 2      \* config.claude_batch_size of the model
MaxJudgments == 2   \* judgments in one response of the service
MaxVerdictClinics == 1  \* records given to validate_batch in VerdictSpec
MaxKeywords == 2    \* keywords of an ExclusionFilter
MaxRecords == 2     \* records given to ExclusionFilter.filter
MaxRegions == 2     \* regions of one scrape request
MaxCallRows == 1    \* rows below the header when append is called with retry
MaxCallBatch == 2   \* records given to append called with retry
MaxFound == 2       \* records search extracts from a page of results
MaxResults == 3     \* max_results given to _scroll_results
MaxHandles == 2     \* listing anchors the page may hold
MaxListed == 3      \* listing anchors found after scrolling
MaxScrolls == 5     \* scrolls of one _scroll_results call
MaxCallers == 4     \* threads that call search
MaxRaceRows == 1    \* rows below the header when two appends race
MaxRaceBatch == 2   \* records given to each of two racing appends
MaxAppendCalls == 2 \* calls of append made with the same records
MaxAnswers == 2     \* judgments in the answers of the service for one region

-----------------------------------------------------------------------------
(* Strings and rows *)

\* str.strip(): the padded cells of the model and what strip() leaves of them
Strip(s) ==
    CASE s = " " -> ""
      [] s = " u1 " -> "u1"
      [] OTHER -> s

Header == [no |-> "No.", name |-> "name", url |-> "url", phone |-> "phone"]

BlankRow == [no |-> "", name |-> "", url |-> "", phone |-> ""]

\* Variant of has_name that forgets strip()
has_name_unstripped(row) == row.name # ""

\* sheets_writer.py:116-118
has_no(row) == Strip(row.no) # ""
has_name(row) == Strip(row.name) # ""
has_url(row) == Strip(row.url) # ""

\* The loop of sheets_writer.py:111-128 over all_values[1:], rows i..Len
RECURSIVE ScanFrom(_, _, _)
ScanFrom(all_values, i, acc) ==
    IF i > Len(all_values) THEN acc
    ELSE LET row == all_values[i] IN
         IF has_name(row) /\ has_url(row)
         THEN ScanFrom(all_values, i + 1,
                  [existing_urls |-> acc.existing_urls \cup {Strip(row.url)},
                   last_data_row |-> i,
                   data_count |-> acc.data_count + 1])
         ELSE IF has_name(row) /\ has_no(row)
         THEN ScanFrom(all_values, i + 1,
                  [existing_urls |-> acc.existing_urls,
                   last_data_row |-> i,
                   data_count |-> acc.data_count + 1])
         ELSE ScanFrom(all_values, i + 1, acc)

ScanStart == 2

Scan(all_values) ==
    ScanFrom(all_values, ScanStart,
             [existing_urls |-> {}, last_data_row |-> 1, data_count |-> 0])

\* The row list of sheets_writer.py:155-170 (columns A:N; the phone column
\* is not among them)
NewRow(next_no, clinic) ==
    [no |-> ToString(next_no), name |-> clinic.name, url |-> clinic.url,
     phone |-> ""]

\* Variants of the staging helpers: no duplicate check, no skip of records
\* without URL, no record of the URLs staged, numbering restarted at 1
IsDuplicate_off(url, existing_urls) == FALSE

NoUrl_off(url) == FALSE

Remember_forget(existing_urls, url) == existing_urls

FirstNo_restart(data_count) == 1

\* sheets_writer.py:142: if url and url in existing_urls
IsDuplicate(url, existing_urls) == url # "" /\ url \in existing_urls

\* sheets_writer.py:147: if not url
NoUrl(url) == url = ""

\* sheets_writer.py:174: existing_urls.add(url)
Remember(existing_urls, url) == existing_urls \cup {url}

\* The loop of sheets_writer.py:137-176
RECURSIVE Stage(_, _, _)
Stage(clinics, existing_urls, next_no) ==
    IF clinics = <<>> THEN <<>>
    ELSE LET clinic == Head(clinics)
             url == clinic.url
         IN  IF IsDuplicate(url, existing_urls)
             THEN Stage(Tail(clinics), existing_urls, next_no)
             ELSE IF NoUrl(url)
             THEN Stage(Tail(clinics), existing_urls, next_no)
             ELSE <<NewRow(next_no, clinic)>>
                  \o Stage(Tail(clinics), Remember(existing_urls, url),
                           next_no + 1)

\* sheets_writer.py:133: next_no = data_count + 1
FirstNo(data_count) == data_count + 1

\* Variant of StartRow: the block begins on the last data row
StartRow_on(last_data_row) == last_data_row

\* sheets_writer.py:181: start_row = last_data_row + 1
StartRow(last_data_row) == last_data_row + 1

\* sheet.update(f"A{start_row}", new_rows): the cells A:N of the rows
\* start_row .. start_row+len-1 are overwritten, the sheet grows as needed
UpdateAt(values, start_row, new_rows) ==
    LET last == start_row + Len(new_rows) - 1
        n == IF last > Len(values) THEN last ELSE Len(values)
    IN  [i \in 1..n |->
            IF i >= start_row /\ i <= last
            THEN [new_rows[i - start_row + 1] EXCEPT
                    !.phone = IF i <= Len(values) THEN values[i].phone ELSE ""]
            ELSE IF i <= Len(values) THEN values[i] ELSE BlankRow]

\* sheets_writer.py:103-176: the rows append stages when it reads `values`
new_rows(values, clinics) ==
    LET s == Scan(values)
    IN  Stage(clinics, s.existing_urls, FirstNo(s.data_count))

\* sheets_writer.py:178-183: the worksheet after append read `values`
Written(values, clinics) ==
    IF new_rows(values, clinics) # <<>>
    THEN UpdateAt(values, StartRow(Scan(values).last_data_row),
                  new_rows(values, clinics))
    ELSE values

\* sheets_writer.py:185: return len(new_rows)
Returned(values, clinics) == Len(new_rows(values, clinics))

-----------------------------------------------------------------------------
(* Inputs *)

\* Sequences over S of length at most n
SeqsUpTo(S, n) == UNION {[1..k -> S] : k \in 0..n}

\* Rows a sheet may hold before the first call: blank, valid with a URL,
\* valid with a padded URL, valid by name and number only, name only
\* (malformed), number and URL under a name of blanks (malformed)
InitRows ==
    { BlankRow,
      [no |-> "1", name |-> "a", url |-> "u1", phone |-> "p1"],
      [no |-> "", name |-> "b", url |-> " u1 ", phone |-> ""],
      [no |-> "2", name |-> "a", url |-> "", phone |-> "p2"],
      [no |-> "", name |-> "a", url |-> "", phone |-> ""],
      [no |-> "7", name |-> " ", url |-> "u2", phone |-> ""] }

InitSheets == {<<Header>> \o s : s \in SeqsUpTo(InitRows, MaxInitRows)}

RunSheets == {<<Header>> \o s : s \in SeqsUpTo(InitRows, MaxRunRows)}

\* Records as Clinic.model_dump() yields them (app/models/clinic.py): the name
\* is stripped and non-empty, the url is stripped or empty (None)
Clinics ==
    { [name |-> "a", url |-> "u1", phone |-> "p1"],
      [name |-> "b", url |-> "u1", phone |-> "p3"],
      [name |-> "a", url |-> "u2", phone |-> "p1"],
      [name |-> "b", url |-> "u3", phone |-> "p3"],
      [name |-> "b", url |-> "", phone |-> "p2"] }

Batches == SeqsUpTo(Clinics, MaxBatch)

-----------------------------------------------------------------------------
(* SheetsWriter.append with a configured sheet and no backend error *)

\* The data rows of `values` as the properties speak of them, stated on the
\* cells and not through the scan: name and URL, or name and number
ValidIdx(values) ==
    {i \in 2..Len(values) :
        /\ values[i].name \notin {"", " "}
        /\ values[i].url \notin {"", " "} \/ values[i].no \notin {"", " "}}

\* The URL a data row carries (surrounding blanks aside), "" for none
UrlOf(row) == IF row.url = " u1 " THEN "u1" ELSE IF row.url = " " THEN "" ELSE row.url

UrlRows(values) == {i \in ValidIdx(values) : UrlOf(values[i]) # ""}

DistinctUrls(values) ==
    \A i, j \in UrlRows(values) :
        i # j => UrlOf(values[i]) # UrlOf(values[j])

\* SheetsWriter.append(clinics), sheets_writer.py:103-185
append(clinics) ==
    /\ sheet' = Written(sheet, clinics)
    /\ before' = sheet
    /\ lastIn' = clinics
    /\ lastRet' = Returned(sheet, clinics)
    /\ called' = TRUE
    /\ again' = called
    /\ prevIn' = lastIn
    /\ prevRet' = lastRet
    /\ totalNew' = totalNew + Returned(sheet, clinics)
    /\ UNCHANGED <<distinct0, valVars, restVars>>

\* ClaudeValidator before validate_batch is called
ValIdle(clients, inputs) ==
    /\ hasClient \in clients
    /\ vClinics \in inputs
    /\ vPc = "idle"
    /\ vI = 0
    /\ vAttempt = 1
    /\ vResults = <<>>
    /\ vCalls = 0
    /\ vAnyOk = FALSE
    /\ vFailed = FALSE
    /\ vInRange = TRUE
    /\ vInCount = 0

\* SheetsWriter before append is called
SinkIdle(sheets) ==
    /\ sheet \in sheets
    /\ before = sheet
    /\ lastIn = <<>>
    /\ lastRet = 0
    /\ called = FALSE
    /\ again = FALSE
    /\ prevIn = <<>>
    /\ prevRet = 0
    /\ distinct0 = DistinctUrls(sheet)
    /\ totalNew = 0

SinkInit(sheets) ==
    /\ ValIdle({TRUE}, {<<>>})
    /\ SinkIdle(sheets)
    /\ RestIdle

\* One append on any sheet content
CallInit == SinkInit(InitSheets)

CallNext == \E clinics \in Batches : ~called /\ append(clinics)

CallSpec == CallInit /\ [][CallNext]_vars

\* Two appends in a row on a header-only sheet
TwiceInit == SinkInit({<<Header>>})

TwiceNext == \E clinics \in Batches : ~again /\ append(clinics)

TwiceSpec == TwiceInit /\ [][TwiceNext]_vars

\* Any number of appends by a single writer; the arguments are not recorded
append_run(clinics) ==
    /\ sheet' = Written(sheet, clinics)
    /\ called' = TRUE
    /\ totalNew' = totalNew + Returned(sheet, clinics)
    /\ UNCHANGED <<before, lastIn, lastRet, again, prevIn, prevRet, distinct0,
                   valVars, restVars>>

RunInit == SinkInit(RunSheets)

RunNext == \E clinics \in Batches : append_run(clinics)

RunSpec == RunInit /\ [][RunNext]_vars

-----------------------------------------------------------------------------
(* Vocabulary of the properties, stated on the sheet alone *)

MaxOf(S) == CHOOSE m \in S : \A x \in S : x <= m

\* The physical row of the last data row, 1 (the header) when there is none
LastValid(values) ==
    IF ValidIdx(values) = {} THEN 1 ELSE MaxOf(ValidIdx(values))

\* The URLs of the data rows
UrlsOf(values) == {UrlOf(values[i]) : i \in UrlRows(values)}

\* The data rows that carry URL u
RowsWith(values, u) == {i \in UrlRows(values) : UrlOf(values[i]) = u}

\* The non-empty URLs of a record list
UrlsIn(clinics) == {clinics[k].url : k \in 1..Len(clinics)} \ {""}

\* The positions of the last call's records that are to be staged: a URL, not
\* one of a data row, not one of an earlier record of the call
ToStage ==
    {k \in 1..Len(lastIn) :
        /\ lastIn[k].url # ""
        /\ lastIn[k].url \notin UrlsOf(before)
        /\ \A j \in 1..(k - 1) : lastIn[j].url # lastIn[k].url}

\* The rank of position k among the positions to stage
Rank(k) == Cardinality({j \in ToStage : j <= k})

-----------------------------------------------------------------------------
(* Claims on SheetsWriter.append *)

\* C1: with a single writer, starting from a sheet whose data rows carry
\* pairwise distinct URLs, after any sequence of append calls no two data
\* rows of the sheet carry the same URL.
C1_NoDuplicateUrl == distinct0 => DistinctUrls(sheet)

C1_Witness ==
    /\ distinct0 /\ called
    /\ UrlsOf(before) # {}
    /\ Cardinality(UrlsOf(sheet)) >= 3

\* C2 as stated: the same list appended twice to a header-only sheet returns
\* the number of input records, then 0, and the second call changes nothing.
C2_InputCountThenZero ==
    (again /\ prevIn = lastIn) =>
        /\ prevRet = Len(lastIn)
        /\ lastRet = 0
        /\ sheet = before

\* C2 amended: the same list appended twice to a header-only sheet returns
\* the number of distinct non-empty URLs among the input records, then 0, and
\* the second call leaves the sheet unchanged.
C2_DistinctUrlCountThenZero ==
    (again /\ prevIn = lastIn) =>
        /\ prevRet = Cardinality(UrlsIn(lastIn))
        /\ lastRet = 0
        /\ sheet = before

C2_Witness ==
    /\ again /\ prevIn = lastIn
    /\ Len(lastIn) = 2 /\ prevRet = 2 /\ lastRet = 0

\* C3: starting from a header-only sheet, after any sequence of append calls
\* that wrote N rows in total, the No. column of the rows below the header
\* reads 1, 2, ..., N from top to bottom.
C3_ContiguousNumbers ==
    (before = <<Header>>) =>
        /\ Len(sheet) = totalNew + 1
        /\ \A i \in 2..Len(sheet) : sheet[i].no = ToString(i - 1)

C3_Witness ==
    /\ before = <<Header>> /\ totalNew = 3
    /\ sheet[4].no = "3"

\* C4: append counts as data rows exactly the rows below the header with a
\* name and a URL, or a name and a number; blank and malformed rows are
\* skipped without ending the scan; the staged rows are written as one block
\* that begins on the row right after the last data row, and every row
\* outside the block is left as it was.
C4_InsertionPoint ==
    called =>
        LET last == LastValid(before)
            count == Cardinality(ValidIdx(before))
        IN  /\ Len(sheet) =
                 IF last + lastRet > Len(before) THEN last + lastRet
                                                 ELSE Len(before)
            /\ \A i \in 1..Len(sheet) :
                 IF i > last /\ i <= last + lastRet
                 THEN /\ sheet[i].no = ToString(count + i - last)
                      /\ i \in UrlRows(sheet)
                 ELSE sheet[i] = before[i]

C4_Witness ==
    /\ called /\ lastRet = 2
    /\ Len(before) = 4
    /\ ValidIdx(before) = {2, 4}
    /\ before[3] = BlankRow
    /\ sheet[5].no = "3" /\ sheet[6].no = "4"

\* C5: the records are taken in input order; a record is staged iff it has a
\* URL that is neither the URL of a data row nor the URL of an earlier record
\* staged by the same call; the i-th staged record gets the number (count of
\* data rows + i); the value returned is the number of staged records.
C5_StagingRule ==
    called =>
        /\ lastRet = Cardinality(ToStage)
        /\ \A k \in ToStage :
             LET row == sheet[LastValid(before) + Rank(k)]
             IN  /\ row.name = lastIn[k].name
                 /\ row.url = lastIn[k].url
                 /\ row.no = ToString(Cardinality(ValidIdx(before)) + Rank(k))

C5_Witness ==
    /\ called /\ Len(lastIn) = 2
    /\ lastIn[1].url = lastIn[2].url
    /\ lastIn[1].name # lastIn[2].name
    /\ Cardinality(ValidIdx(before)) = 2
    /\ ToStage = {1}
    /\ lastRet = 1
    /\ sheet[LastValid(before) + 1].no = "3"

\* The names and the phone numbers of the data rows
NamesOf(values) == {values[i].name : i \in ValidIdx(values)}
PhonesOf(values) == {values[i].phone : i \in ValidIdx(values)} \ {""}

------------------------------------------------------------------------\* The rows of the sheet before the call that the call changed
Changed == {i \in 1..Len(before) : sheet[i] # before[i]}

\* C35: append keeps every row up to the last data row, the header included,
\* as it was before the call, whatever the sheet holds and whatever the
\* records are; the rows it writes all lie after the last data row.
C35_ExistingRowsKept ==
    called =>
        /\ Len(sheet) >= Len(before)
        /\ \A i \in 1..LastValid(before) : sheet[i] = before[i]
        /\ \A i \in Changed : i > LastValid(before)

C35_Witness ==
    /\ called /\ lastRet = 2
    /\ Len(before) = 4
    /\ LastValid(before) = 3
    /\ before[4].name = "a" /\ before[4].no = "" /\ before[4].url = ""
    /\ Changed = {4}
    /\ Len(sheet) = 5

-----
(* ClaudeValidator.validate_batch *)

\* claude_validator.py:138: stop_after_attempt(3)
MaxAttempts == 3

\* Variant of Retryable: tenacity retries nothing
Retryable_none == {}

\* claude_validator.py:140: the exceptions tenacity retries
Retryable == {"APIError", "JSONDecodeError"}

\* The clinics argument: records told apart by their name
InputsUpTo(n) == {[k \in 1..m |-> [name |-> ToString(k)]] : m \in 0..n}

\* The index values a judgment may carry
Indices == (0 - BatchSize)..BatchSize

\* A JSON value is "true", "false" or "null"; "absent" stands for a missing key
JsonFlags == {"true", "false", "null", "absent"}

\* Judgments whose index varies (in range, too large, negative)
IndexJudgments ==
    [index : Indices, is_official_site : {"false"}, is_major_chain : {"false"}]

\* Judgments whose verdict varies, for an index in range
VerdictJudgments ==
    [index : 0..(MaxVerdictClinics - 1), is_official_site : JsonFlags,
     is_major_chain : JsonFlags]

\* dict.get(key, default)
Get(value, default) == IF value = "absent" THEN default ELSE value

\* claude_validator.py:209-212
is_valid(validation) ==
    /\ Get(validation.is_official_site, "null") # "false"
    /\ Get(validation.is_major_chain, "null") = "false"

\* claude_validator.py:199-214: clinic_dict
Merged(clinic, validation) ==
    [name |-> clinic.name,
     is_official_site |-> Get(validation.is_official_site, "null"),
     is_major_chain |-> Get(validation.is_major_chain, "false"),
     validation_reason |-> "judged",
     is_valid |-> is_valid(validation)]

\* Variant of FailOpen: the record is marked invalid
FailOpen_invalid(clinic, reason) ==
    [name |-> clinic.name, is_official_site |-> "absent",
     is_major_chain |-> "absent", validation_reason |-> reason,
     is_valid |-> FALSE]

\* claude_validator.py:99 and 124-128: the record with is_valid True
FailOpen(clinic, reason) ==
    [name |-> clinic.name, is_official_site |-> "absent",
     is_major_chain |-> "absent", validation_reason |-> reason,
     is_valid |-> TRUE]

\* claude_validator.py:197: if idx < len(clinics)
Accepted(idx, n) == idx < n

\* claude_validator.py:198: clinics[idx], a negative idx counting from the end
At(clinics, idx) ==
    IF idx >= 0 THEN clinics[idx + 1] ELSE clinics[Len(clinics) + idx + 1]

\* clinics[idx] raises IndexError
IndexError(validations, n) ==
    \E k \in 1..Len(validations) :
        /\ Accepted(validations[k].index, n)
        /\ validations[k].index < 0 - n

\* The loop of claude_validator.py:194-214
RECURSIVE MergeAll(_, _)
MergeAll(clinics, validations) ==
    IF validations = <<>> THEN <<>>
    ELSE LET validation == Head(validations)
             idx == validation.index
         IN  IF Accepted(idx, Len(clinics))
             THEN <<Merged(At(clinics, idx), validation)>>
                  \o MergeAll(clinics, Tail(validations))
             ELSE MergeAll(clinics, Tail(validations))

\* claude_validator.py:108: batch = clinics[i : i + self.batch_size]
Batch(clinics, i) ==
    SubSeq(clinics, i + 1,
           IF i + BatchSize < Len(clinics) THEN i + BatchSize ELSE Len(clinics))

\* Variant of FailOpenAll: only the first record of the batch is failed open
FailOpenAll_first(batch, reason) ==
    [k \in 1..(IF batch = <<>> THEN 0 ELSE 1) |-> FailOpen(batch[k], reason)]

\* claude_validator.py:122-129: every record of the batch, failed open
FailOpenAll(batch, reason) ==
    [k \in 1..Len(batch) |-> FailOpen(batch[k], reason)]

\* Variant of Caught: only the retried exception types are caught
Caught_retryable_only(e) == e \in Retryable

\* claude_validator.py:119: except Exception
Caught(e) == TRUE

\* validate_batch without a client, claude_validator.py:96-101
NoClient ==
    /\ vPc = "idle" /\ ~hasClient
    /\ vResults' = FailOpenAll(vClinics, "not configured")
    /\ vPc' = "done"
    /\ UNCHANGED <<hasClient, vClinics, vI, vAttempt, vCalls, vAnyOk, vFailed,
                   vInRange, vInCount,
                   sinkVars, restVars>>

\* validate_batch enters its loop, claude_validator.py:103-107
Start ==
    /\ vPc = "idle" /\ hasClient
    /\ vPc' = "batch"
    /\ UNCHANGED <<hasClient, vClinics, vI, vAttempt, vResults, vCalls, vAnyOk,
                   vFailed, vInRange, vInCount,
                   sinkVars, restVars>>

\* An attempt on the current batch ends in exception e: tenacity calls
\* _validate_batch_internal again (claude_validator.py:137-142), or the
\* exception reaches validate_batch (claude_validator.py:119-129)
AttemptRaises(e) ==
    IF e \in Retryable /\ vAttempt < MaxAttempts
    THEN /\ vAttempt' = vAttempt + 1
         /\ UNCHANGED <<vPc, vI, vResults>>
    ELSE IF Caught(e)
    THEN /\ vResults' = vResults \o FailOpenAll(Batch(vClinics, vI),
                                                "API error: " \o e)
         /\ vI' = vI + BatchSize
         /\ vAttempt' = 1
         /\ UNCHANGED vPc
    ELSE /\ vPc' = "raised"
         /\ UNCHANGED <<vI, vAttempt, vResults>>

InLoop == vPc = "batch" /\ vI < Len(vClinics)

\* client.messages.create raises e, claude_validator.py:164-168
ServiceError(e) ==
    /\ InLoop
    /\ vCalls' = vCalls + 1
    /\ vFailed' = TRUE
    /\ AttemptRaises(e)
    /\ UNCHANGED <<hasClient, vClinics, vAnyOk, vInRange, vInCount,
                   sinkVars, restVars>>

\* The body does not parse: json.loads raises, claude_validator.py:188
BadBody ==
    /\ InLoop
    /\ vCalls' = vCalls + 1
    /\ vFailed' = TRUE
    /\ AttemptRaises("JSONDecodeError")
    /\ UNCHANGED <<hasClient, vClinics, vAnyOk, vInRange, vInCount,
                   sinkVars, restVars>>

\* The positions of validations whose index names a record of a batch of n
InBounds(validations, n) ==
    {k \in 1..Len(validations) :
        validations[k].index >= 0 /\ validations[k].index < n}

\* The body parses to the list validations, claude_validator.py:188-217 and
\* 115-118
Judged(validations) ==
    /\ InLoop
    /\ vCalls' = vCalls + 1
    /\ vAnyOk' = TRUE
    /\ LET batch == Batch(vClinics, vI)
       IN  /\ vInRange' =
                  (vInRange /\ \A k \in 1..Len(validations) :
                      /\ validations[k].index >= 0
                      /\ validations[k].index < Len(batch))
           /\ vInCount' = vInCount + Cardinality(InBounds(validations, Len(batch)))
           /\ IF IndexError(validations, Len(batch))
              THEN /\ vFailed' = TRUE
                   /\ AttemptRaises("IndexError")
              ELSE /\ vResults' = vResults \o MergeAll(batch, validations)
                   /\ vI' = vI + BatchSize
                   /\ vAttempt' = 1
                   /\ UNCHANGED <<vPc, vFailed>>
    /\ UNCHANGED <<hasClient, vClinics, sinkVars, restVars>>

\* The loop is over: return results, claude_validator.py:131-135
Return ==
    /\ vPc = "batch" /\ vI >= Len(vClinics)
    /\ vPc' = "done"
    /\ UNCHANGED <<hasClient, vClinics, vI, vAttempt, vResults, vCalls, vAnyOk,
                   vFailed, vInRange, vInCount,
                   sinkVars, restVars>>

ValSteps(judgments) ==
    \/ NoClient
    \/ Start
    \/ \E e \in {"APIError", "Exception"} : ServiceError(e)
    \/ BadBody
    \/ \E validations \in SeqsUpTo(judgments, MaxJudgments) : Judged(validations)
    \/ Return

\* validate_batch against a service free in the indices it answers with
ValInit ==
    /\ ValIdle(BOOLEAN, InputsUpTo(MaxClinics))
    /\ SinkIdle({<<Header>>})
    /\ RestIdle

ValNext == ValSteps(IndexJudgments)

ValSpec == ValInit /\ [][ValNext]_vars

\* validate_batch runs to its end: the loop of claude_validator.py:107 and
\* tenacity's loop keep taking their next step (the backoff waits are finite)
ValFairSpec == ValSpec /\ WF_vars(ValNext)

\* validate_batch against a service free in the verdicts it answers with
VerdictInit ==
    /\ ValIdle(BOOLEAN, InputsUpTo(MaxVerdictClinics))
    /\ SinkIdle({<<Header>>})
    /\ RestIdle

VerdictNext == ValSteps(VerdictJudgments)

VerdictSpec == VerdictInit /\ [][VerdictNext]_vars

-----------------------------------------------------------------------------
(* Claims on ClaudeValidator.validate_batch *)

\* The entries of results that come from a judgment of the service
JudgedIdx == {k \in 1..Len(vResults) : vResults[k].validation_reason = "judged"}

\* C8: for every record merged with a judgment, is_valid is true iff the
\* merged is_official_site is not false and the merged is_major_chain is
\* false, is_major_chain being false when the judgment omits it.
C8_ValidityDerivation ==
    \A k \in JudgedIdx :
        vResults[k].is_valid <=>
            /\ vResults[k].is_official_site # "false"
            /\ vResults[k].is_major_chain = "false"

\* The reasons validate_batch gives to a record it failed open on an error
ErrorReasons ==
    {"API error: " \o e : e \in {"APIError", "JSONDecodeError", "Exception"}}

\* C9: when every call of the service fails, validate_batch raises nothing
\* and returns one entry per input record, in input order, each with
\* is_valid true and a reason that records the error.
C9_FailOpen ==
    /\ vPc # "raised"
    /\ (vPc = "done" /\ hasClient /\ ~vAnyOk) =>
          /\ Len(vResults) = Len(vClinics)
          /\ \A k \in 1..Len(vResults) :
                /\ vResults[k].name = vClinics[k].name
                /\ vResults[k].is_valid
                /\ vResults[k].validation_reason \in ErrorReasons

C9_Witness ==
    /\ vPc = "done" /\ hasClient /\ ~vAnyOk
    /\ Len(vClinics) = 3
    /\ vCalls = 4
    /\ vResults[1].validation_reason = "API error: JSONDecodeError"
    /\ vResults[3].validation_reason = "API error: Exception"

\* C10: whenever every batch was answered by a list of judgments with indices
\* in range (in any order, some missing or repeated), the result has one
\* entry per input record and its k-th entry is the k-th input record merged
\* with a judgment.
C10_OrderPreservingComplete ==
    (vPc = "done" /\ hasClient /\ ~vFailed /\ vInRange) =>
        /\ Len(vResults) = Len(vClinics)
        /\ \A k \in 1..Len(vResults) :
              /\ vResults[k].name = vClinics[k].name
              /\ vResults[k].validation_reason = "judged"

\* C11: a judgment whose index is outside 0..len(batch)-1 is ignored: it
\* neither makes the batch fail nor produces an output entry, so the entries
\* merged with a judgment are at most as many as the judgments received with
\* an index inside the bounds.
C11_OutOfBoundsIgnored ==
    /\ \A k \in 1..Len(vResults) :
          vResults[k].validation_reason # "API error: IndexError"
    /\ Cardinality(JudgedIdx) <= vInCount

\* C12: without a client validate_batch never calls the service, and it
\* returns every input record, in input order, with is_valid true and the
\* reason "not configured".
C12_NotConfigured ==
    ~hasClient =>
        /\ vCalls = 0
        /\ vPc \in {"idle", "done"}
        /\ vPc = "done" =>
              /\ Len(vResults) = Len(vClinics)
              /\ \A k \in 1..Len(vResults) :
                    /\ vResults[k].name = vClinics[k].name
                    /\ vResults[k].is_valid
                    /\ vResults[k].validation_reason = "not configured"

C12_Witness ==
    /\ ~hasClient /\ vPc = "done"
    /\ Len(vClinics) = 3
    /\ Len(vResults) = 3

\* The chunk validate_batch is working on, and the entries a step appends
CurrentChunk == Batch(vClinics, vI)

Appended == SubSeq(vResults', Len(vResults) + 1, Len(vResults'))

\* A step that calls the service
Sends == vCalls' = vCalls + 1

\* A step that ends an attempt in a failure tenacity retries
TransientFailure == BadBody \/ ServiceError("APIError")

\* A step that gives up the current chunk
GivesUp ==
    /\ vI' > vI
    /\ Appended # <<>>
    /\ Appended[Len(Appended)].validation_reason # "judged"

\* The entries of s are the records of chunk, in order, failed open
FailedOpen(s, chunk) ==
    /\ Len(s) = Len(chunk)
    /\ \A k \in 1..Len(s) :
          /\ s[k].name = chunk[k].name
          /\ s[k].is_valid
          /\ s[k].validation_reason \in ErrorReasons \cup {"API error: IndexError"}

\* A transient failure before the third attempt re-sends the same chunk and
\* leaves the results alone; on the third attempt it fails the chunk open
C25_Resend ==
    (Sends /\ TransientFailure) =>
        IF vAttempt < 3
        THEN vI' = vI /\ vAttempt' = vAttempt + 1 /\ vResults' = vResults
        ELSE vI' > vI /\ FailedOpen(Appended, CurrentChunk)

\* What a chunk adds to the results comes from one attempt: a step that stays
\* on the chunk adds nothing, a step that leaves it adds either judged
\* entries only or the chunk failed open
C25_OneAttempt ==
    vPc = "batch" =>
    /\ Len(vResults') >= Len(vResults)
    /\ SubSeq(vResults', 1, Len(vResults)) = vResults
    /\ vI' = vI => vResults' = vResults
    /\ vI' > vI =>
          \/ \A k \in 1..Len(Appended) : Appended[k].validation_reason = "judged"
          \/ FailedOpen(Appended, CurrentChunk)

\* The calls made so far: at most three for each chunk
C25_Sends ==
    /\ vAttempt \in 1..3
    /\ vCalls <= 3 * (vI \div BatchSize) + (vAttempt - 1)

\* C25: a transient failure (body that does not parse, retryable service
\* error) makes validate_batch send the same chunk again, a chunk being sent
\* at most 3 times; a chunk's entries come from the attempt that succeeded
\* only, or the chunk is failed open once the attempts are exhausted; and
\* validate_batch always comes to its end.
C25_RetryBound ==
    /\ [][C25_Resend /\ C25_OneAttempt]_vars
    /\ []C25_Sends
    /\ <>(vPc = "done")

C25_Witness ==
    /\ vPc = "done" /\ hasClient
    /\ Len(vClinics) = 3
    /\ vCalls = 6
    /\ Len(vResults) = 3
    /\ vResults[1].validation_reason = "judged"
    /\ vResults[3].validation_reason = "API error: JSONDecodeError"

\* C26: when a chunk is given up, exactly its records are appended with
\* is_valid true and a reason that records the error; the entries of the
\* earlier chunks stay as they were, and validate_batch goes on to the next
\* chunk: it returns only when every chunk was worked on.
C26_ChunkIsolation ==
    /\ [][GivesUp =>
            /\ FailedOpen(Appended, CurrentChunk)
            /\ SubSeq(vResults', 1, Len(vResults)) = vResults
            /\ vPc' = "batch"
            /\ vI' = vI + BatchSize /\ vAttempt' = 1]_vars
    /\ [](vPc = "done" /\ hasClient => vI >= Len(vClinics))

C26_Witness ==
    /\ vPc = "done" /\ hasClient
    /\ Len(vClinics) = 3
    /\ Len(vResults) = 3
    /\ vResults[1].validation_reason = "API error: APIError"
    /\ vResults[2].validation_reason = "API error: APIError"
    /\ vResults[3].validation_reason = "judged"
    /\ vCalls = 4

-----------------------------------------------------------------------------
(* ExclusionFilter.filter *)

\* A string is a sequence of characters; the letters of the model
UpperOf == [a |-> "A", g |-> "G", b |-> "B"]

\* Variant of LowerChar: no case folding
LowerChar_identity(c) == c

\* str.lower() on one character
LowerChar(c) ==
    CASE c = "A" -> "a"
      [] c = "G" -> "g"
      [] c = "B" -> "b"
      [] OTHER -> c

\* str.lower()
Lower(s) == [i \in 1..Len(s) |-> LowerChar(s[i])]

\* sub in s, for strings
Contains(sub, s) ==
    \E i \in 0..(Len(s) - Len(sub)) : SubSeq(s, i + 1, i + Len(sub)) = sub

\* exclusion_filter.py:51-66
should_exclude(name, keywords) ==
    LET name_lower == Lower(name)
    IN  \E k \in 1..Len(keywords) : Contains(Lower(keywords[k]), name_lower)

\* exclusion_filter.py:29-49: the loop over clinics
RECURSIVE filter(_, _)
filter(clinics, keywords) ==
    IF clinics = <<>> THEN <<>>
    ELSE IF should_exclude(Head(clinics).name, keywords)
         THEN filter(Tail(clinics), keywords)
         ELSE <<Head(clinics)>> \o filter(Tail(clinics), keywords)

\* The names of the listings and the keywords of the model
ListingNames ==
    {<<"A", "G", "a">>, <<"b", "a", "g">>, <<"G", "A", "b">>, <<"b">>}

KeywordSet == {<<"a", "g", "a">>, <<"A", "g">>, <<"B">>}

FilterRecords == [name : ListingNames, url : {"u1"}]

\* ExclusionFilter(keywords), then one call of filter
FilterInit ==
    /\ fKeywords \in SeqsUpTo(KeywordSet, MaxKeywords)
    /\ fClinics \in SeqsUpTo(FilterRecords, MaxRecords)
    /\ fResult = <<>>
    /\ fPc = "idle"
    /\ ValIdle({TRUE}, {<<>>})
    /\ SinkIdle({<<Header>>})
    /\ OrchIdle
    /\ CallIdle
    /\ PanelIdle
    /\ MoreIdle

\* exclusion_filter.py:29-49
Filter ==
    /\ fPc = "idle"
    /\ fResult' = filter(fClinics, fKeywords)
    /\ fPc' = "done"
    /\ UNCHANGED <<fKeywords, fClinics, sinkVars, valVars, orchVars,
                   callVars, panelVars, moreVars>>

FilterNext == Filter

FilterSpec == FilterInit /\ [][FilterNext]_vars

-----------------------------------------------------------------------------
(* Claims on ExclusionFilter.filter *)

\* Two characters are the same letter, whatever their case
SameLetter(c, d) ==
    \/ c = d
    \/ \E l \in DOMAIN UpperOf : {c, d} = {l, UpperOf[l]}

\* name contains keyword at offset i, case-insensitively
MatchesAt(name, keyword, i) ==
    /\ i + Len(keyword) <= Len(name)
    /\ \A j \in 1..Len(keyword) : SameLetter(name[i + j], keyword[j])

\* The positions of fClinics whose name contains no keyword of fKeywords
KeptPositions ==
    {p \in 1..Len(fClinics) :
        \A k \in 1..Len(fKeywords) :
            \A i \in 0..Len(fClinics[p].name) :
                ~MatchesAt(fClinics[p].name, fKeywords[k], i)}

\* C17: the result of filter is the input restricted, in input order, to the
\* records whose name contains, case-insensitively, no keyword: the k-th
\* record of the result is the record at the k-th kept position.
C17_FilterExact ==
    fPc = "done" =>
        /\ Len(fResult) = Cardinality(KeptPositions)
        /\ \A p \in KeptPositions :
              fResult[Cardinality({q \in KeptPositions : q <= p})] = fClinics[p]

C17_Witness ==
    /\ fPc = "done"
    /\ Len(fClinics) = 2 /\ Len(fKeywords) = 2
    /\ fClinics[1].name = <<"A", "G", "a">>
    /\ fClinics[2].name = <<"b">>
    /\ fKeywords[1] = <<"a", "g", "a">>
    /\ fResult = <<fClinics[2]>>

-----------------------------------------------------------------------------
(* scrape.generate: the per-region pipeline *)

\* A string of the sink made of the characters of a name
RECURSIVE Join(_)
Join(name) == IF name = <<>> THEN "" ELSE Head(name) \o Join(Tail(name))

\* The listings scraper.search can find, in the order it finds them
Listings ==
    <<[name |-> <<"A", "G", "a">>, url |-> "u1"],
      [name |-> <<"b">>, url |-> "u2"],
      [name |-> <<"G", "A", "b">>, url |-> "u3"]>>

\* config.exclusion_keywords of the run
RunKeywords == <<<<"a", "g", "a">>>>

\* The sub-sequence of s at the positions P
RECURSIVE Pick(_, _, _)
Pick(s, P, i) ==
    IF i > Len(s) THEN <<>>
    ELSE IF i \in P THEN <<s[i]>> \o Pick(s, P, i + 1)
    ELSE Pick(s, P, i + 1)

\* What scraper.search may return
SearchResults == {Pick(Listings, P, 1) : P \in SUBSET (1..Len(Listings))}

\* clinic.model_dump() with the verdict of the validator
Validated(clinic, valid) ==
    [name |-> Join(clinic.name), url |-> clinic.url, phone |-> "",
     is_valid |-> valid]

\* scrape.py:38-41: _create_sse_message("log", message=...); kind and what
\* stand for the text of the message, n for the count it shows
Log(kind, what, n) ==
    [type |-> "log", kind |-> kind, what |-> what, n |-> n, region |-> oI]

\* The history variables of the sink, which generate leaves alone
sinkHist == <<before, lastIn, lastRet, called, again, prevIn, prevRet,
              distinct0, totalNew>>

\* Variant of AfterFailure: the failure of a region ends the run
AfterFailure_abort(e) == "aborted"

\* scrape.py:215-235: the handlers of the region's try end in continue, so
\* the finally clause runs and the loop goes on
AfterFailure(e) == "finally"

\* Variant of Skip: no step of a region is skipped
Skip_never(records) == FALSE

\* scrape.py:128, 153, 179: `if not clinics`, `if not filtered`,
\* `if not valid_clinics`: the rest of the region is skipped
Skip(records) == records = <<>>

\* generate is entered: scrape.py:72-87
OBegin ==
    /\ oPc = "idle"
    /\ events' = events \o <<[type |-> "log", kind |-> "session", what |-> "",
                              n |-> Len(regions), region |-> 0]>>
    /\ oPc' = "setup"
    /\ UNCHANGED <<regions, oI, oClinics, total_found, total_excluded,
                   total_new, all_valid_clinics, sinkVars, valVars, filtVars,
                   callVars, panelVars, moreVars>>

\* scrape.py:89-101: the services are constructed, or a constructor raises
\* and the handler of scrape.py:255-259 yields the error event
OSetup(ok) ==
    /\ oPc = "setup"
    /\ IF ok
       THEN /\ oPc' = "loop"
            /\ UNCHANGED events
       ELSE /\ oPc' = "error"
            /\ events' = events \o <<[type |-> "error"]>>
    /\ UNCHANGED <<regions, oI, oClinics, total_found, total_excluded,
                   total_new, all_valid_clinics, sinkVars, valVars, filtVars,
                   callVars, panelVars, moreVars>>

\* scrape.py:104-112: the loop takes the next region
ORegion ==
    /\ oPc = "loop" /\ oI <= Len(regions)
    /\ events' = events \o <<Log("start", "", 0)>>
    /\ oPc' = "search"
    /\ UNCHANGED <<regions, oI, oClinics, total_found, total_excluded,
                   total_new, all_valid_clinics, sinkVars, valVars, filtVars,
                   callVars, panelVars, moreVars>>

\* scrape.py:122, 215-228: scraper.search raises
OSearchFails(e) ==
    /\ oPc = "search"
    /\ events' = events \o
          <<IF e = "ScrapingError" THEN Log("warn", e, 0)
            ELSE Log("error", e, 0)>>
    /\ oPc' = AfterFailure(e)
    /\ UNCHANGED <<regions, oI, oClinics, total_found, total_excluded,
                   total_new, all_valid_clinics, sinkVars, valVars, filtVars,
                   callVars, panelVars, moreVars>>

\* scrape.py:122-135: scraper.search returns found
OSearch(found) ==
    /\ oPc = "search"
    /\ IF Skip(found)
       THEN /\ events' = events \o
                  <<Log("found", "", 0), Log("skip", "search", 0)>>
            /\ oPc' = "finally"
            /\ UNCHANGED <<oClinics, total_found>>
       ELSE /\ events' = events \o <<Log("found", "", Len(found))>>
            /\ total_found' = total_found + Len(found)
            /\ oClinics' = found
            /\ oPc' = "filter"
    /\ UNCHANGED <<regions, oI, total_excluded, total_new, all_valid_clinics,
                   sinkVars, valVars, filtVars,
                   callVars, panelVars, moreVars>>

\* scrape.py:142-159: the exclusion filter
OFilter ==
    /\ oPc = "filter"
    /\ LET filtered == filter(oClinics, RunKeywords)
           excluded_count == Len(oClinics) - Len(filtered)
           said == IF excluded_count > 0
                   THEN <<Log("excluded", "", excluded_count)>> ELSE <<>>
       IN  /\ total_excluded' = total_excluded + excluded_count
           /\ oClinics' = filtered
           /\ IF Skip(filtered)
              THEN /\ events' = events \o said \o <<Log("skip", "filter", 0)>>
                   /\ oPc' = "finally"
              ELSE /\ events' = events \o said
                                \o <<Log("validating", "", Len(filtered))>>
                   /\ oPc' = "validate"
    /\ UNCHANGED <<regions, oI, total_found, total_new, all_valid_clinics,
                   sinkVars, valVars, filtVars,
                   callVars, panelVars, moreVars>>

\* scrape.py:166-184: validate_batch judges the records at the positions V
\* valid
OValidate(V) ==
    /\ oPc = "validate"
    /\ LET validated ==
               [k \in 1..Len(oClinics) |-> Validated(oClinics[k], k \in V)]
           valid_clinics == SelectSeq(validated, LAMBDA c : c.is_valid)
       IN  /\ oClinics' = valid_clinics
           /\ IF Skip(valid_clinics)
              THEN /\ events' = events \o <<Log("validated", "", 0),
                                            Log("skip", "validate", 0)>>
                   /\ oPc' = "finally"
              ELSE /\ events' = events
                                \o <<Log("validated", "", Len(valid_clinics))>>
                   /\ oPc' = "append"
    /\ UNCHANGED <<regions, oI, total_found, total_excluded, total_new,
                   all_valid_clinics, sinkVars, valVars, filtVars,
                   callVars, panelVars, moreVars>>

\* scrape.py:193-202: sheets_writer.append returns
OAppend ==
    /\ oPc = "append"
    /\ LET new_count == Returned(sheet, oClinics)
       IN  /\ sheet' = Written(sheet, oClinics)
           /\ total_new' = total_new + new_count
           /\ events' = events \o <<Log("saved", "", new_count)>>
           /\ all_valid_clinics' = all_valid_clinics \o oClinics
    /\ oPc' = "finally"
    /\ UNCHANGED <<regions, oI, oClinics, total_found, total_excluded,
                   sinkHist, valVars, filtVars,
                   callVars, panelVars, moreVars>>

\* scrape.py:203-213: sheets_writer.append raises
OAppendFails(e) ==
    /\ oPc = "append"
    /\ events' = events \o <<Log("warn", e, 0)>>
    /\ oPc' = AfterFailure(e)
    /\ UNCHANGED <<regions, oI, oClinics, total_found, total_excluded,
                   total_new, all_valid_clinics, sinkVars, valVars, filtVars,
                   callVars, panelVars, moreVars>>

\* scrape.py:229-235: the finally clause, then the next turn of the loop
OFinally ==
    /\ oPc = "finally"
    /\ events' = events \o <<Log("region_done", "", 0)>>
    /\ oI' = oI + 1
    /\ oClinics' = <<>>
    /\ oPc' = "loop"
    /\ UNCHANGED <<regions, total_found, total_excluded, total_new,
                   all_valid_clinics, sinkVars, valVars, filtVars,
                   callVars, panelVars, moreVars>>

\* scrape.py:237-253: the loop is over, the complete event
OComplete ==
    /\ oPc = "loop" /\ oI > Len(regions)
    /\ events' = events \o
          <<[type |-> "complete",
             total_found |-> total_found,
             valid_count |-> Len(all_valid_clinics),
             excluded_count |-> total_excluded,
             new_count |-> total_new]>>
    /\ oPc' = "done"
    /\ UNCHANGED <<regions, oI, oClinics, total_found, total_excluded,
                   total_new, all_valid_clinics, sinkVars, valVars, filtVars,
                   callVars, panelVars, moreVars>>

OSteps ==
    \/ OBegin
    \/ \E ok \in BOOLEAN : OSetup(ok)
    \/ ORegion
    \/ \E e \in {"ScrapingError", "Exception"} : OSearchFails(e)
    \/ \E found \in SearchResults : OSearch(found)
    \/ OFilter
    \/ \E V \in SUBSET (1..Len(oClinics)) : OValidate(V)
    \/ OAppend
    \/ \E e \in {"SheetsError", "Exception"} : OAppendFails(e)
    \/ OFinally
    \/ OComplete

\* A request of 1..MaxRegions regions on an empty sink
OrchInit ==
    /\ regions \in {[k \in 1..n |-> k] : n \in 1..MaxRegions}
    /\ oPc = "idle"
    /\ oI = 1
    /\ oClinics = <<>>
    /\ total_found = 0
    /\ total_excluded = 0
    /\ total_new = 0
    /\ all_valid_clinics = <<>>
    /\ events = <<>>
    /\ FilterIdle
    /\ CallIdle
    /\ PanelIdle
    /\ ValIdle({TRUE}, {<<>>})
    /\ SinkIdle({<<Header>>})
    /\ MoreIdle

OrchNext == OSteps

OrchSpec == OrchInit /\ [][OrchNext]_vars

\* The consumer of the stream keeps iterating and every call generate makes
\* returns or raises (they all have timeouts), so generate always takes its
\* next step
OrchFairSpec == OrchSpec /\ WF_vars(OrchNext)

-----------------------------------------------------------------------------
(* Claims on scrape.generate *)

\* The log events of the given kind, in the order generate yielded them
LogsOf(kind) == SelectSeq(events, LAMBDA e : e.type = "log" /\ e.kind = kind)

\* The sum of the counts shown by the events of evs
RECURSIVE SumN(_)
SumN(evs) == IF evs = <<>> THEN 0 ELSE Head(evs).n + SumN(Tail(evs))

\* Region r was started
StartedRegion(r) == \E k \in 1..Len(LogsOf("start")) : LogsOf("start")[k].region = r

\* The search of region r raised
SearchFailedIn(r) ==
    \/ \E k \in 1..Len(LogsOf("error")) : LogsOf("error")[k].region = r
    \/ \E k \in 1..Len(LogsOf("warn")) :
          /\ LogsOf("warn")[k].region = r
          /\ LogsOf("warn")[k].what = "ScrapingError"

\* The append of region r raised
SinkFailedIn(r) ==
    \E k \in 1..Len(LogsOf("warn")) :
        /\ LogsOf("warn")[k].region = r
        /\ LogsOf("warn")[k].what # "ScrapingError"

FailedIn(r) == SearchFailedIn(r) \/ SinkFailedIn(r)

LastEvent == events[Len(events)]

\* The regions are started one by one in input order, none twice, and a run
\* that is over without a fatal error has started them all
C13_Order ==
    /\ Len(LogsOf("start")) <= Len(regions)
    /\ \A k \in 1..Len(LogsOf("start")) : LogsOf("start")[k].region = k
    /\ oPc \in {"idle", "setup", "loop", "search", "filter", "validate",
                "append", "finally", "done", "error"}
    /\ oPc = "done" => Len(LogsOf("start")) = Len(regions)
    /\ (\E r \in 1..Len(regions) : FailedIn(r)) => oPc # "error"

\* The run went on after region r: the next region was started or, r being
\* the last region, the run completed
FollowedUp(r) ==
    IF r < Len(regions) THEN StartedRegion(r + 1) ELSE oPc = "done"

\* C13: the regions are started exactly once each, in input order, and after
\* the failure of a region (search raised, append raised; a warning event
\* records it) the run goes on: the next region is started, or, after the
\* last region, the run completes; no failure of a region ends the run.
\* (The events only grow, so a failure once followed up stays followed up.)
C13_RegionIsolation ==
    /\ []C13_Order
    /\ <>[](\A r \in 1..Len(regions) : FailedIn(r) => FollowedUp(r))

C13_Witness ==
    /\ oPc = "done"
    /\ Len(regions) = 2
    /\ SearchFailedIn(1)
    /\ SinkFailedIn(2)

\* The stream is log events followed by at most one terminal event; complete
\* carries the totals and ends a run whose setup succeeded, error ends a run
\* whose setup failed, before any region was started
C14_Stream ==
    /\ \A j \in 1..(Len(events) - 1) : events[j].type = "log"
    /\ oPc = "done" <=> (events # <<>> /\ LastEvent.type = "complete")
    /\ oPc = "error" <=> (events # <<>> /\ LastEvent.type = "error")
    /\ oPc = "done" =>
          /\ LastEvent.total_found = total_found
          /\ LastEvent.excluded_count = total_excluded
          /\ LastEvent.valid_count = Len(all_valid_clinics)
          /\ LastEvent.new_count = total_new
    /\ oPc = "error" => Len(events) = 2 /\ LogsOf("start") = <<>>

\* A run ends, and it ends with complete once its setup succeeded
C14_Ends ==
    /\ <>(oPc \in {"done", "error"})
    /\ (oPc = "loop") ~> (oPc = "done")

AllFailed == \A r \in 1..Len(regions) : FailedIn(r)

\* C14 as stated: ... and when every region failed all counts are zero.
C14_TerminalAllZero ==
    /\ []C14_Stream
    /\ C14_Ends
    /\ [](oPc = "done" /\ AllFailed =>
            /\ LastEvent.total_found = 0
            /\ LastEvent.excluded_count = 0
            /\ LastEvent.valid_count = 0
            /\ LastEvent.new_count = 0)

\* C14: every run's stream ends with exactly one terminal event and nothing
\* follows it; it is complete, with the totals, whenever the setup succeeded,
\* even when every region failed, and error only when the setup failed. When
\* every region failed the new count is zero, and all counts are zero when
\* every region failed in its search; a region whose append failed still
\* counts in the found and excluded totals.
C14_TerminalEvent ==
    /\ []C14_Stream
    /\ C14_Ends
    /\ [](oPc = "done" /\ AllFailed =>
            /\ LastEvent.new_count = 0
            /\ (\A r \in 1..Len(regions) : SearchFailedIn(r)) =>
                  /\ LastEvent.total_found = 0
                  /\ LastEvent.excluded_count = 0
                  /\ LastEvent.valid_count = 0)

C14_Witness ==
    /\ oPc = "done"
    /\ Len(regions) = 2
    /\ AllFailed
    /\ SinkFailedIn(1)
    /\ LastEvent.total_found = 3
    /\ LastEvent.excluded_count = 1
    /\ LastEvent.new_count = 0

\* C15: when the append of a region raised, a warning was emitted, the valid
\* total of the complete event still counts the records judged valid in that
\* region (it is the number of records judged valid in all regions), and
\* the new total is the sum of the values append returned.
C15_UnsavedCountedValid ==
    (oPc = "done" /\ \E r \in 1..Len(regions) : SinkFailedIn(r)) =>
        /\ LastEvent.valid_count = SumN(LogsOf("validated"))
        /\ LastEvent.new_count = SumN(LogsOf("saved"))

\* The run of the example: two regions, the first yields the three listings
\* (one excluded by keyword, two judged valid), the second yields none
ExampleRun ==
    /\ Len(regions) = 2
    /\ Len(LogsOf("found")) = 2
    /\ LogsOf("found")[1].n = 3 /\ LogsOf("found")[2].n = 0
    /\ SumN(LogsOf("excluded")) = 1
    /\ SumN(LogsOf("validated")) = 2
    /\ ~FailedIn(1)

\* The totals and the sink the example expects
ExampleTotals ==
    /\ LastEvent.total_found = 3
    /\ LastEvent.excluded_count = 1
    /\ LastEvent.valid_count = 2
    /\ LastEvent.new_count = 2
    /\ Len(sheet) = 3
    /\ sheet[2].no = "1" /\ sheet[3].no = "2"

\* C16: in the complete event total_found is the sum of the listings found,
\* excluded_count the sum of the listings the filter removed, valid_count the
\* sum of the listings judged valid and new_count the sum of the values
\* append returned; the run of the example reports 3, 1, 2, 2 and leaves
\* rows 1 and 2 in the sink.
C16_RunningTotals ==
    oPc = "done" =>
        /\ LastEvent.total_found = SumN(LogsOf("found"))
        /\ LastEvent.excluded_count = SumN(LogsOf("excluded"))
        /\ LastEvent.valid_count = SumN(LogsOf("validated"))
        /\ LastEvent.new_count = SumN(LogsOf("saved"))
        /\ ExampleRun => ExampleTotals

\* The events of region r that tell a step of its pipeline, in the order
\* generate yielded them
StepsOf(r) ==
    SelectSeq(events, LAMBDA e :
        /\ e.type = "log" /\ e.region = r
        /\ e.kind \in {"found", "validating", "validated", "saved"})

\* The place of a step in the pipeline
StepRank == [found |-> 1, validating |-> 2, validated |-> 3, saved |-> 4]

\* The listing a record of the run was made from
ListingOf(url) == CHOOSE k \in 1..Len(Listings) : Listings[k].url = url

\* The exclusion filter keeps the listing: no keyword occurs in its name
PassesFilter(listing) ==
    \A k \in 1..Len(RunKeywords) :
        \A i \in 0..Len(listing.name) :
            ~MatchesAt(listing.name, RunKeywords[k], i)

\* The sink failed in the current region
SinkWarned ==
    LastEvent.type = "log" /\ LastEvent.kind = "warn"
    /\ LastEvent.what \in {"SheetsError", "Exception"} /\ LastEvent.region = oI

\* C29: in every region the steps happen in the order search, filter,
\* validate, append, each at most once; validate_batch is called only with
\* at least one record, all of which the filter kept; append is called only
\* with at least one record, and every record it is given was kept by the
\* filter and has is_valid true.
C29_PipelineGating ==
    /\ \A r \in 1..Len(regions) :
          \A i, j \in 1..Len(StepsOf(r)) :
              i < j => StepRank[StepsOf(r)[i].kind] < StepRank[StepsOf(r)[j].kind]
    /\ \A k \in 1..Len(LogsOf("validating")) : LogsOf("validating")[k].n > 0
    /\ oPc = "validate" =>
          /\ oClinics # <<>>
          /\ \A k \in 1..Len(oClinics) : PassesFilter(oClinics[k])
    /\ oPc = "append" =>
          /\ oClinics # <<>>
          /\ \A k \in 1..Len(oClinics) :
                /\ oClinics[k].is_valid
                /\ PassesFilter(Listings[ListingOf(oClinics[k].url)])
    /\ \A k \in 1..Len(events) :
          (events[k].type = "log" /\ events[k].kind = "saved") =>
              \E j \in 1..(k - 1) :
                  /\ events[j].type = "log" /\ events[j].kind = "validated"
                  /\ events[j].region = events[k].region
                  /\ events[j].n > 0
    /\ (oPc = "finally" /\ SinkWarned) =>
          \E j \in 1..Len(events) :
              /\ events[j].type = "log" /\ events[j].kind = "validated"
              /\ events[j].region = oI /\ events[j].n > 0

C29_Witness ==
    /\ oPc = "append"
    /\ oI = 2
    /\ Len(oClinics) = 1
    /\ oClinics[1].url = "u2"
    /\ \E k \in 1..Len(events) :
          /\ events[k].type = "log" /\ events[k].kind = "excluded"
          /\ events[k].region = 2
    /\ \E k \in 1..Len(events) :
          /\ events[k].type = "log" /\ events[k].kind = "validating"
          /\ events[k].region = 2 /\ events[k].n = 2
    /\ \E k \in 1..Len(events) :
          /\ events[k].type = "log" /\ events[k].kind = "skip"
          /\ events[k].what = "filter" /\ events[k].region = 1

-----------------------------------------------------------------------------
(* SheetsWriter.append under @retry: configuration and backend errors *)

\* sheets_writer.py:66: stop_after_attempt(3)
AppendAttempts == 3

\* Variant of Retried: every exception is retried
Retried_all(e) == TRUE

\* Variant of Retried: no exception is retried
Retried_none(e) == FALSE

\* sheets_writer.py:68: retry_if_exception_type(gspread.exceptions.APIError)
Retried(e) == e = "APIError"

\* tenacity with reraise=True: exception e ended the attempt
AttemptEnds(e) ==
    IF Retried(e) /\ aAttempt < AppendAttempts
    THEN /\ aAttempt' = aAttempt + 1
         /\ aPc' = "retrying"
         /\ UNCHANGED aRaised
    ELSE /\ aPc' = "raised"
         /\ aRaised' = e
         /\ UNCHANGED aAttempt

\* An attempt may start
Attempting == aPc \in {"idle", "retrying"}

\* sheets_writer.py:81-85: no spreadsheet id
ANoId ==
    /\ Attempting
    /\ spreadsheet_id = ""
    /\ AttemptEnds("ConfigurationError")
    /\ UNCHANGED <<spreadsheet_id, credentials, aIn, aRet, aReads, aWrites,
                   sinkVars, valVars, filtVars, orchVars,
                   panelVars, moreVars>>

\* sheets_writer.py:87 and 35-57: _get_client finds no credentials, or
\* credentials that are not JSON
ANoCredentials ==
    /\ Attempting
    /\ spreadsheet_id # ""
    /\ credentials \in {"", "bad"}
    /\ AttemptEnds("ConfigurationError")
    /\ UNCHANGED <<spreadsheet_id, credentials, aIn, aRet, aReads, aWrites,
                   sinkVars, valVars, filtVars, orchVars,
                   panelVars, moreVars>>

Configured == spreadsheet_id # "" /\ credentials = "ok"

\* sheets_writer.py:58-62: the service refuses the credentials
AAuthFails ==
    /\ Attempting /\ Configured
    /\ AttemptEnds("SheetsError")
    /\ UNCHANGED <<spreadsheet_id, credentials, aIn, aRet, aReads, aWrites,
                   sinkVars, valVars, filtVars, orchVars,
                   panelVars, moreVars>>

\* sheets_writer.py:88-104: the backend fails before the rows are read
AReadFails ==
    /\ Attempting /\ Configured
    /\ AttemptEnds("APIError")
    /\ UNCHANGED <<spreadsheet_id, credentials, aIn, aRet, aReads, aWrites,
                   sinkVars, valVars, filtVars, orchVars,
                   panelVars, moreVars>>

\* sheets_writer.py:104-183: the rows are read and staged, and sheet.update
\* raises; the backend has applied the update or not
AWriteFails(applied) ==
    /\ Attempting /\ Configured
    /\ new_rows(sheet, aIn) # <<>>
    /\ aReads' = aReads + 1
    /\ IF applied
       THEN sheet' = Written(sheet, aIn) /\ aWrites' = aWrites + 1
       ELSE UNCHANGED <<sheet, aWrites>>
    /\ AttemptEnds("APIError")
    /\ UNCHANGED <<spreadsheet_id, credentials, aIn, aRet,
                   sinkHist, valVars, filtVars, orchVars,
                   panelVars, moreVars>>

\* Variant of Updates: update is called whatever was staged
Updates_always(staged) == 1

\* sheets_writer.py:179-182: the update calls of an attempt that staged
\* `staged`
Updates(staged) == IF staged # <<>> THEN 1 ELSE 0

\* sheets_writer.py:81-185: the attempt succeeds
AReturns ==
    /\ Attempting /\ Configured
    /\ aReads' = aReads + 1
    /\ sheet' = Written(sheet, aIn)
    /\ aWrites' = aWrites + Updates(new_rows(sheet, aIn))
    /\ aRet' = Returned(sheet, aIn)
    /\ aPc' = "returned"
    /\ UNCHANGED <<spreadsheet_id, credentials, aIn, aAttempt, aRaised,
                   sinkHist, valVars, filtVars, orchVars,
                   panelVars, moreVars>>

\* A SheetsWriter of any configuration, and one call of append
AttemptInit ==
    /\ spreadsheet_id \in {"", "sid"}
    /\ credentials \in {"", "bad", "ok"}
    /\ aIn \in SeqsUpTo(Clinics, MaxCallBatch)
    /\ aPc = "idle"
    /\ aAttempt = 1
    /\ aRaised = ""
    /\ aRet = 0
    /\ aReads = 0
    /\ aWrites = 0
    /\ SinkIdle({<<Header>> \o s : s \in SeqsUpTo(InitRows, MaxCallRows)})
    /\ ValIdle({TRUE}, {<<>>})
    /\ FilterIdle
    /\ OrchIdle
    /\ PanelIdle
    /\ MoreIdle

AttemptNext ==
    \/ ANoId
    \/ ANoCredentials
    \/ AAuthFails
    \/ AReadFails
    \/ \E applied \in BOOLEAN : AWriteFails(applied)
    \/ AReturns

AttemptSpec == AttemptInit /\ [][AttemptNext]_vars

-----------------------------------------------------------------------------
(* Claims on the errors of SheetsWriter.append *)

\* C18: when the spreadsheet id or the credentials are missing, append raises
\* a configuration error on its first attempt, makes no second attempt, and
\* neither reads nor writes the sink.
C18_ConfigErrorNotRetried ==
    (spreadsheet_id = "" \/ credentials = "") =>
        /\ aAttempt = 1
        /\ aPc \in {"idle", "raised"}
        /\ aPc = "raised" => aRaised = "ConfigurationError"
        /\ aReads = 0 /\ aWrites = 0
        /\ sheet = before

C18_Witness ==
    /\ aPc = "raised"
    /\ aRaised = "ConfigurationError"
    /\ spreadsheet_id # "" /\ credentials = ""
    /\ aIn # <<>>
    /\ new_rows(sheet, aIn) # <<>>

\* A step in which the backend fails an attempt of append
BackendFails == AReadFails \/ \E applied \in BOOLEAN : AWriteFails(applied)

\* C27: a backend error that ends an attempt of append before the third makes
\* tenacity call append again from its start (the rows are read and staged
\* anew); there are at most 3 attempts; a backend error on the third attempt
\* leaves append as the exception its caller sees.
C27_SinkRetry ==
    /\ [][BackendFails =>
            IF aAttempt < 3
            THEN aPc' = "retrying" /\ aAttempt' = aAttempt + 1 /\ aRaised' = ""
            ELSE aPc' = "raised" /\ aRaised' = "APIError"]_vars
    /\ [][(aPc = "retrying" /\ aPc' = "returned") =>
            /\ aReads' = aReads + 1
            /\ sheet' = Written(sheet, aIn)
            /\ aRet' = Len(new_rows(sheet, aIn))]_vars
    /\ [](aAttempt \in 1..3)
    /\ [](aRaised = "APIError" => aAttempt = 3)

C27_Witness ==
    /\ aPc = "raised" /\ aRaised = "APIError"
    /\ aAttempt = 3
    /\ aReads = 3
    /\ aWrites = 0
    /\ sheet = before

\* The rows start .. start+n-1 of the worksheet values
Block(values, start, n) ==
    [k \in 1..n |-> [no |-> values[start + k - 1].no,
                     name |-> values[start + k - 1].name,
                     url |-> values[start + k - 1].url]]

\* The staged rows without the column outside the written range
Cells(rows) ==
    [k \in 1..Len(rows) |-> [no |-> rows[k].no, name |-> rows[k].name,
                             url |-> rows[k].url]]

-----------------------------------------------------------------------------
(* GoogleMapsScraper._extract_clinic_info: the click and the panel *)

\* google_maps.py:473: max_wait_attempts
max_wait_attempts == 15

\* The ideographic space, as one character
WideSpace == "wide"

\* google_maps.py:661-662: replace(" ", "").replace(wide space, "").lower()
Normalized(s) == Lower(SelectSeq(s, LAMBDA c : c # " " /\ c # WideSpace))

\* s[:n]
Prefix(s, n) == SubSeq(s, 1, IF n < Len(s) THEN n ELSE Len(s))

\* Variant of names_match: every title is taken for the clicked listing's
names_match_any(h1_name, aria_label_name) == TRUE

\* google_maps.py:646-677
names_match(h1_name, aria_label_name) ==
    IF h1_name = <<>> \/ aria_label_name = <<>> THEN FALSE
    ELSE IF h1_name = aria_label_name THEN TRUE
    ELSE LET h1_normalized == Normalized(h1_name)
             aria_normalized == Normalized(aria_label_name)
             min_len == IF Len(h1_normalized) < Len(aria_normalized)
                        THEN Len(h1_normalized) ELSE Len(aria_normalized)
         IN  \/ h1_normalized = aria_normalized
             \/ Contains(h1_normalized, aria_normalized)
             \/ Contains(aria_normalized, h1_normalized)
             \/ /\ min_len >= 5
                /\ Prefix(h1_normalized, min_len) = Prefix(aria_normalized, min_len)

\* Variant of Abandon: extraction is never abandoned
Abandon_never(h1, aria_label_name) == FALSE

\* google_maps.py:523: if final_h1 and not self._names_match(final_h1, name)
Abandon(h1, aria_label_name) ==
    h1 # <<>> /\ ~names_match(h1, aria_label_name)

\* The aria-label of the clicked element
ClickedName == <<"a", "b">>

\* The titles the panel may give the clicked listing: the aria-label, a
\* spelling of it, a longer name, another name
TitlesOfB ==
    {<<"a", "b">>, <<"A", " ", "b">>, <<"a", "b", WideSpace, "g">>, <<"g", "b">>}

\* The titles of the listing open before the click: a name that contains
\* the clicked one, another name
TitlesOfA == {<<"G", "a", "b">>, <<"g", "g">>}

\* What the steps of _extract_clinic_info leave alone
othersX == <<sinkVars, valVars, filtVars, orchVars, callVars, moreVars>>

\* The page renders the click: the title goes blank while the detail loads,
\* the fields of the earlier listing staying in place or not
PanelBlanks(keep) ==
    /\ pPending
    /\ pTitle # <<>>
    /\ pTitle' = <<>>
    /\ pShown' = IF keep THEN pShown ELSE "none"
    /\ UNCHANGED <<pPending, pTitleB, xName, prev_h1, xPc, attempt, panel_ready,
                   final_h1, xTimedOut, xFinalChecked, xReadFrom, othersX>>

\* The page renders the click: the panel shows listing B
PanelShows ==
    /\ pPending
    /\ pTitle' = pTitleB
    /\ pShown' = "B"
    /\ pPending' = FALSE
    /\ UNCHANGED <<pTitleB, xName, prev_h1, xPc, attempt, panel_ready,
                   final_h1, xTimedOut, xFinalChecked, xReadFrom, othersX>>

\* google_maps.py:461-464: prev_h1
XBaseline ==
    /\ xPc = "idle"
    /\ prev_h1' = pTitle
    /\ xPc' = "click"
    /\ UNCHANGED <<pTitle, pShown, pPending, pTitleB, xName, attempt,
                   panel_ready, final_h1, xTimedOut, xFinalChecked, xReadFrom,
                   othersX>>

\* google_maps.py:466-469: _click_element_robust
XClick(click_success) ==
    /\ xPc = "click"
    /\ IF click_success
       THEN pPending' = TRUE /\ xPc' = "poll"
       ELSE UNCHANGED pPending /\ xPc' = "null"
    /\ UNCHANGED <<pTitle, pShown, pTitleB, xName, prev_h1, attempt,
                   panel_ready, final_h1, xTimedOut, xFinalChecked, xReadFrom,
                   othersX>>

\* google_maps.py:476-500: one turn of the poll loop up to its first sleep
XPoll ==
    /\ xPc = "poll" /\ attempt < max_wait_attempts
    /\ LET current_h1 == pTitle
       IN  IF current_h1 # <<>> /\ names_match(current_h1, xName)
           THEN /\ panel_ready' = TRUE
                /\ xPc' = "fields"
                /\ UNCHANGED attempt
           ELSE IF current_h1 # <<>> /\ current_h1 # prev_h1
           THEN /\ xPc' = "recheck"
                /\ UNCHANGED <<attempt, panel_ready>>
           ELSE /\ attempt' = attempt + 1
                /\ UNCHANGED <<xPc, panel_ready>>
    /\ UNCHANGED <<pTitle, pShown, pPending, pTitleB, xName, prev_h1, final_h1,
                   xTimedOut, xFinalChecked, xReadFrom, othersX>>

\* google_maps.py:491-498: the second look after the title changed
XRecheck ==
    /\ xPc = "recheck"
    /\ final_h1' = pTitle
    /\ IF pTitle # <<>> /\ names_match(pTitle, xName)
       THEN /\ panel_ready' = TRUE
            /\ xPc' = "fields"
            /\ UNCHANGED attempt
       ELSE /\ attempt' = attempt + 1
            /\ xPc' = "poll"
            /\ UNCHANGED panel_ready
    /\ UNCHANGED <<pTitle, pShown, pPending, pTitleB, xName, prev_h1,
                   xTimedOut, xFinalChecked, xReadFrom, othersX>>

\* google_maps.py:502-508: the loop ended without a match
XTimeout ==
    /\ xPc = "poll" /\ attempt = max_wait_attempts
    /\ final_h1' = pTitle
    /\ xTimedOut' = TRUE
    /\ xPc' = IF pTitle = <<>> THEN "reclick" ELSE "final"
    /\ UNCHANGED <<pTitle, pShown, pPending, pTitleB, xName, prev_h1, attempt,
                   panel_ready, xFinalChecked, xReadFrom, othersX>>

\* google_maps.py:509-511, 517-518: element.evaluate("el => el.click()")
XReclick(clicked) ==
    /\ xPc = "reclick"
    /\ IF clicked
       THEN /\ pPending' = (pShown # "B")
            /\ xPc' = "reread"
       ELSE /\ UNCHANGED pPending
            /\ xPc' = "final"
    /\ UNCHANGED <<pTitle, pShown, pTitleB, xName, prev_h1, attempt,
                   panel_ready, final_h1, xTimedOut, xFinalChecked, xReadFrom,
                   othersX>>

\* google_maps.py:512-516: the title after the second click
XReread ==
    /\ xPc = "reread"
    /\ final_h1' = pTitle
    /\ IF pTitle # <<>> /\ names_match(pTitle, xName)
       THEN panel_ready' = TRUE /\ xPc' = "fields"
       ELSE UNCHANGED panel_ready /\ xPc' = "final"
    /\ UNCHANGED <<pTitle, pShown, pPending, pTitleB, xName, prev_h1, attempt,
                   xTimedOut, xFinalChecked, xReadFrom, othersX>>

\* google_maps.py:520-528: the final check
XFinalCheck ==
    /\ xPc = "final"
    /\ final_h1' = pTitle
    /\ xFinalChecked' = TRUE
    /\ xPc' = IF Abandon(pTitle, xName) THEN "null" ELSE "fields"
    /\ UNCHANGED <<pTitle, pShown, pPending, pTitleB, xName, prev_h1, attempt,
                   panel_ready, xTimedOut, xReadFrom, othersX>>

\* google_maps.py:533-550: one field is read from the panel (url, address,
\* phone, rating, reviews, in this order)
FieldCount == 5

XReadField ==
    /\ xPc = "fields"
    /\ xReadFrom' = Append(xReadFrom, pShown)
    /\ xPc' = IF Len(xReadFrom) + 1 = FieldCount THEN "returned" ELSE "fields"
    /\ UNCHANGED <<pTitle, pShown, pPending, pTitleB, xName, prev_h1, attempt,
                   panel_ready, final_h1, xTimedOut, xFinalChecked, othersX>>

\* The panel is empty or shows listing A; the element of listing B is clicked
PanelInit ==
    /\ \/ pTitle = <<>> /\ pShown = "none"
       \/ pTitle \in TitlesOfA /\ pShown = "A"
    /\ pPending = FALSE
    /\ pTitleB \in TitlesOfB
    /\ xName = ClickedName
    /\ prev_h1 = <<>>
    /\ xPc = "idle"
    /\ attempt = 0
    /\ panel_ready = FALSE
    /\ final_h1 = <<>>
    /\ xTimedOut = FALSE
    /\ xFinalChecked = FALSE
    /\ xReadFrom = <<>>
    /\ FilterIdle
    /\ OrchIdle
    /\ CallIdle
    /\ ValIdle({TRUE}, {<<>>})
    /\ SinkIdle({<<Header>>})
    /\ MoreIdle

PanelNext ==
    \/ \E keep \in BOOLEAN : PanelBlanks(keep)
    \/ PanelShows
    \/ XBaseline
    \/ \E click_success \in BOOLEAN : XClick(click_success)
    \/ XPoll
    \/ XRecheck
    \/ XTimeout
    \/ \E clicked \in BOOLEAN : XReclick(clicked)
    \/ XReread
    \/ XFinalCheck
    \/ XReadField

PanelSpec == PanelInit /\ [][PanelNext]_vars

-----------------------------------------------------------------------------
(* Claims on _extract_clinic_info *)

\* The letters of a text, spaces left out
Letters(s) == SelectSeq(s, LAMBDA c : c \notin {" ", WideSpace})

\* The fuzzy equality of a title and a name: both non-empty, and the letters
\* of one occur, whatever their case, as a run of the letters of the other
Similar(title, n) ==
    /\ title # <<>> /\ n # <<>>
    /\ \/ \E i \in 0..Len(Letters(title)) :
             MatchesAt(Letters(title), Letters(n), i)
       \/ \E i \in 0..Len(Letters(n)) :
             MatchesAt(Letters(n), Letters(title), i)

\* Every field read so far was read while the panel showed listing B
ReadFromClicked == \A k \in 1..Len(xReadFrom) : xReadFrom[k] = "B"

C20_AbandonOnMismatch ==
    /\ (xFinalChecked /\ final_h1 # <<>> /\ ~Similar(final_h1, xName)) =>
          xPc = "null" /\ xReadFrom = <<>>
    /\ (xTimedOut /\ ~panel_ready /\ xReadFrom # <<>>) =>
          /\ xFinalChecked
          /\ final_h1 = <<>> \/ Similar(final_h1, xName)

C20_Witness ==
    /\ xTimedOut /\ xFinalChecked
    /\ final_h1 = <<"g", "g">>
    /\ xPc = "null"
    /\ xReadFrom = <<>>

-----------------------------------------------------------------------------
(* GoogleMapsScraper.search: the session, the navigation, the teardown *)

othersQ == <<sinkVars, valVars, filtVars, orchVars, callVars, panelVars,
             poolVars, raceVars, scrollVars, lateVars>>

\* What the page may show when _search_impl looks at it
Pages == [feed : BOOLEAN, h1 : {"", "results", "name"}]

\* google_maps.py:255 and 282: not feed and h1_text and h1_text != "結果"
SingleResult(f, h1) == ~f /\ h1 # "" /\ h1 # "results"

\* Variant of should_retry: the query is issued again whatever it holds
should_retry_always == TRUE

\* google_maps.py:260-261: no retry keyword occurs in the query
should_retry == ~qHasTerm

\* google_maps.py:232-238 and 310-317: what leaves _search_impl when the
\* first page.goto ends in a timeout or in another exception
GotoRaises(e) == "ScrapingError"

\* search is called: google_maps.py:213-222
QCall(term) ==
    /\ qPc = "idle"
    /\ qHasTerm' = term
    /\ qPc' = "start"
    /\ UNCHANGED <<playwright, browser, context, feed, h1_text, qGotos,
                   qTimedOut, qClinics, qRaised, tSteps, othersQ>>

\* google_maps.py:113: sync_playwright().start()
QStart(ok) ==
    /\ qPc = "start"
    /\ IF ok
       THEN playwright' = "open" /\ qPc' = "launch" /\ UNCHANGED qRaised
       ELSE qRaised' = "Exception" /\ qPc' = "close_context"
            /\ UNCHANGED playwright
    /\ UNCHANGED <<browser, context, qHasTerm, feed, h1_text, qGotos,
                   qTimedOut, qClinics, tSteps, othersQ>>

\* google_maps.py:117-134: playwright.chromium.launch
QLaunch(ok) ==
    /\ qPc = "launch"
    /\ IF ok
       THEN browser' = "open" /\ qPc' = "new_context" /\ UNCHANGED qRaised
       ELSE qRaised' = "Exception" /\ qPc' = "close_context"
            /\ UNCHANGED browser
    /\ UNCHANGED <<playwright, context, qHasTerm, feed, h1_text, qGotos,
                   qTimedOut, qClinics, tSteps, othersQ>>

\* google_maps.py:139-147: browser.new_context
QNewContext(ok) ==
    /\ qPc = "new_context"
    /\ IF ok
       THEN context' = "open" /\ qPc' = "new_page" /\ UNCHANGED qRaised
       ELSE qRaised' = "Exception" /\ qPc' = "close_context"
            /\ UNCHANGED context
    /\ UNCHANGED <<playwright, browser, qHasTerm, feed, h1_text, qGotos,
                   qTimedOut, qClinics, tSteps, othersQ>>

\* google_maps.py:148-152: context.new_page, then the body of the with
QNewPage(ok) ==
    /\ qPc = "new_page"
    /\ IF ok
       THEN qPc' = "goto" /\ UNCHANGED qRaised
       ELSE qRaised' = "Exception" /\ qPc' = "close_context"
    /\ UNCHANGED <<playwright, browser, context, qHasTerm, feed, h1_text,
                   qGotos, qTimedOut, qClinics, tSteps, othersQ>>

\* google_maps.py:229-238: the first page.goto returns ("ok"), times out
\* ("timeout") or raises something else ("error")
QGoto(outcome) ==
    /\ qPc = "goto"
    /\ qGotos' = qGotos + 1
    /\ IF outcome = "ok"
       THEN qPc' = "classify" /\ UNCHANGED <<qRaised, qTimedOut>>
       ELSE /\ qRaised' = GotoRaises(outcome)
            /\ qTimedOut' = IF outcome = "timeout" THEN qTimedOut \cup {"first"}
                            ELSE qTimedOut
            /\ qPc' = "close_context"
    /\ UNCHANGED <<playwright, browser, context, qHasTerm, feed, h1_text,
                   qClinics, tSteps, othersQ>>

\* google_maps.py:249-263: the page is looked at
QClassify(page) ==
    /\ qPc = "classify"
    /\ feed' = page.feed
    /\ h1_text' = page.h1
    /\ qPc' = IF SingleResult(page.feed, page.h1) /\ should_retry
              THEN "retry" ELSE "extract"
    /\ UNCHANGED <<playwright, browser, context, qHasTerm, qGotos, qTimedOut,
                   qClinics, qRaised, tSteps, othersQ>>

\* google_maps.py:264-279: the query is issued again with the suffix; when
\* page.goto does not return, the handler logs a warning and feed and h1_text
\* keep the values of the first page
QRetry(outcome, page) ==
    /\ qPc = "retry"
    /\ qGotos' = qGotos + 1
    /\ IF outcome = "ok"
       THEN feed' = page.feed /\ h1_text' = page.h1 /\ UNCHANGED qTimedOut
       ELSE /\ UNCHANGED <<feed, h1_text>>
            /\ qTimedOut' = IF outcome = "timeout" THEN qTimedOut \cup {"retry"}
                            ELSE qTimedOut
    /\ qPc' = "extract"
    /\ UNCHANGED <<playwright, browser, context, qHasTerm, qClinics, qRaised,
                   tSteps, othersQ>>

\* google_maps.py:282-288: one record is read from the open panel, or none
QExtractSingle(got) ==
    /\ qPc = "extract"
    /\ SingleResult(feed, h1_text)
    /\ qClinics' = IF got THEN 1 ELSE 0
    /\ qPc' = "close_context"
    /\ UNCHANGED <<playwright, browser, context, qHasTerm, feed, h1_text,
                   qGotos, qTimedOut, qRaised, tSteps, othersQ>>

\* google_maps.py:289-308: the results are scrolled and n records extracted
QExtractMulti(n) ==
    /\ qPc = "extract"
    /\ ~SingleResult(feed, h1_text)
    /\ qClinics' = n
    /\ qPc' = "close_context"
    /\ UNCHANGED <<playwright, browser, context, qHasTerm, feed, h1_text,
                   qGotos, qTimedOut, qRaised, tSteps, othersQ>>

\* google_maps.py:312-317: any other exception in the body of the with
QBodyRaises ==
    /\ qPc \in {"classify", "extract"}
    /\ qRaised' = "ScrapingError"
    /\ qPc' = "close_context"
    /\ UNCHANGED <<playwright, browser, context, qHasTerm, feed, h1_text,
                   qGotos, qTimedOut, qClinics, tSteps, othersQ>>

\* The outcomes of a cleanup function run by _cleanup_with_timeout: it
\* returns, it raises, it is still running after timeout_seconds
Outcomes == {"ok", "error", "timeout"}

\* Variant of After: every cleanup step closes its object
After_closed(outcome) == "closed"

\* What a cleanup step leaves of the object it was to close
After(outcome) == IF outcome = "ok" THEN "closed" ELSE "left"

\* Variant of Proceeds: only a step that succeeded lets the finally clause go on
Proceeds_on_success(outcome) == outcome = "ok"

\* google_maps.py:50-61: join(timeout) returns in every case and
\* _cleanup_with_timeout returns False on a timeout or an error
Proceeds(outcome) == TRUE

\* The cleanup step on object obj ended in outcome
Step(obj, outcome) == [step |-> obj, outcome |-> outcome]

\* google_maps.py:166-173: if context: context.close()
QCloseContext(outcome) ==
    /\ qPc = "close_context"
    /\ IF context = "open"
       THEN /\ context' = After(outcome)
            /\ tSteps' = Append(tSteps, Step("context", outcome))
            /\ qPc' = IF Proceeds(outcome) THEN "close_browser" ELSE "hung"
       ELSE /\ qPc' = "close_browser"
            /\ UNCHANGED <<context, tSteps>>
    /\ UNCHANGED <<playwright, browser, qHasTerm, feed, h1_text, qGotos,
                   qTimedOut, qClinics, qRaised, othersQ>>

\* google_maps.py:175-182: if browser: browser.close()
QCloseBrowser(outcome) ==
    /\ qPc = "close_browser"
    /\ IF browser = "open"
       THEN /\ browser' = After(outcome)
            /\ tSteps' = Append(tSteps, Step("browser", outcome))
            /\ qPc' = IF Proceeds(outcome) THEN "stop_playwright" ELSE "hung"
       ELSE /\ qPc' = "stop_playwright"
            /\ UNCHANGED <<browser, tSteps>>
    /\ UNCHANGED <<playwright, context, qHasTerm, feed, h1_text, qGotos,
                   qTimedOut, qClinics, qRaised, othersQ>>

\* google_maps.py:184-195: if playwright: playwright.stop()
QStopPlaywright(outcome) ==
    /\ qPc = "stop_playwright"
    /\ IF playwright = "open"
       THEN /\ playwright' = After(outcome)
            /\ tSteps' = Append(tSteps, Step("playwright", outcome))
            /\ qPc' = IF Proceeds(outcome) THEN "exit" ELSE "hung"
       ELSE /\ qPc' = "exit"
            /\ UNCHANGED <<playwright, tSteps>>
    /\ UNCHANGED <<browser, context, qHasTerm, feed, h1_text, qGotos,
                   qTimedOut, qClinics, qRaised, othersQ>>

\* The with statement is left: the exception under way goes on to the caller
\* (google_maps.py:157, 311, 317), or _search_impl returns clinics (319-322)
QExit ==
    /\ qPc = "exit"
    /\ qPc' = IF qRaised = "" THEN "returned" ELSE "raised"
    /\ UNCHANGED <<playwright, browser, context, qHasTerm, feed, h1_text,
                   qGotos, qTimedOut, qClinics, qRaised, tSteps, othersQ>>

\* One call of search
SearchInit ==
    /\ SearchIdle
    /\ PoolIdle
    /\ RaceIdle
    /\ ScrollIdle
    /\ LateIdle
    /\ FilterIdle
    /\ OrchIdle
    /\ CallIdle
    /\ PanelIdle
    /\ ValIdle({TRUE}, {<<>>})
    /\ SinkIdle({<<Header>>})

SearchNext ==
    \/ \E term \in BOOLEAN : QCall(term)
    \/ \E ok \in BOOLEAN : QStart(ok)
    \/ \E ok \in BOOLEAN : QLaunch(ok)
    \/ \E ok \in BOOLEAN : QNewContext(ok)
    \/ \E ok \in BOOLEAN : QNewPage(ok)
    \/ \E outcome \in Outcomes : QGoto(outcome)
    \/ \E page \in Pages : QClassify(page)
    \/ \E outcome \in Outcomes, page \in Pages : QRetry(outcome, page)
    \/ \E got \in BOOLEAN : QExtractSingle(got)
    \/ \E n \in 0..MaxFound : QExtractMulti(n)
    \/ QBodyRaises
    \/ \E outcome \in Outcomes : QCloseContext(outcome)
    \/ \E outcome \in Outcomes : QCloseBrowser(outcome)
    \/ \E outcome \in Outcomes : QStopPlaywright(outcome)
    \/ QExit

SearchSpec == SearchInit /\ [][SearchNext]_vars

\* The finally clause of _browser_context keeps running: each cleanup thread
\* is waited for at most CLEANUP_TIMEOUT seconds
SearchFairSpec == SearchSpec /\ WF_vars(SearchNext)

-----------------------------------------------------------------------------
(* Claims on GoogleMapsScraper.search *)

\* search is over
SearchOver == qPc \in {"returned", "raised"}

\* C21: a call of search in which a navigation timed out, the first or the
\* one of the query issued again, raises ScrapingError and returns no record.
C21_TimeoutAborts ==
    (SearchOver /\ qTimedOut # {}) => (qPc = "raised" /\ qRaised = "ScrapingError")

\* The place of a cleanup step in the finally clause
CleanupRank == [context |-> 1, browser |-> 2, playwright |-> 3]

\* The objects _browser_context holds when its finally clause is entered
Held == {obj \in {"context", "browser", "playwright"} :
            \/ obj = "context" /\ context # "none"
            \/ obj = "browser" /\ browser # "none"
            \/ obj = "playwright" /\ playwright # "none"}

\* The finally clause is running
Releasing == qPc \in {"close_context", "close_browser", "stop_playwright"}

\* C22: the cleanup steps are made in the order context, browser, playwright;
\* each object _browser_context holds is given its step whatever the earlier
\* steps ended in (return, exception or timeout); no step changes the
\* exception under way; and the finally clause, once entered, is always left.
C22_TeardownNeverHangs ==
    /\ [](\A i, j \in 1..Len(tSteps) :
             i < j => CleanupRank[tSteps[i].step] < CleanupRank[tSteps[j].step])
    /\ [](SearchOver => {tSteps[i].step : i \in 1..Len(tSteps)} = Held)
    /\ [](SearchOver => qRaised \in {"", "ScrapingError", "Exception"})
    /\ [][Releasing => qRaised' = qRaised]_vars
    /\ (qPc = "close_context" ~> SearchOver)

C22_Witness ==
    /\ qPc = "returned"
    /\ Len(tSteps) = 3
    /\ tSteps[1] = Step("context", "timeout")
    /\ tSteps[2] = Step("browser", "error")
    /\ tSteps[3] = Step("playwright", "ok")
    /\ qClinics > 0

\* A step of the call that navigates again after the first navigation
Reissues == qGotos >= 1 /\ qGotos' # qGotos

\* The step by which the call leaves the extraction
Extracts == qPc = "extract" /\ qPc' = "close_context" /\ qRaised' = ""

\* C33: within one call the query is issued again at most once, and only when
\* the page was classified single-result and the query holds none of the
\* retry keywords; a page classified single-result after that step gives at
\* most one record, and search returns at most one.
C33_DisambiguationRetry ==
    /\ [][Reissues => /\ qGotos = 1
                      /\ qGotos' = 2
                      /\ SingleResult(feed, h1_text)
                      /\ ~qHasTerm]_vars
    /\ [][Extracts /\ SingleResult(feed, h1_text) => qClinics' <= 1]_vars
    /\ [](qPc = "returned" /\ SingleResult(feed, h1_text) => qClinics <= 1)
    /\ [](qGotos <= 2)

C33_Witness ==
    /\ qPc = "returned"
    /\ ~qHasTerm
    /\ qGotos = 2
    /\ qTimedOut = {}
    /\ SingleResult(feed, h1_text)
    /\ qClinics = 1

\* The objects of a rendering session and what the call has made of each
Session == [context |-> context, browser |-> browser, playwright |-> playwright]

\* The cleanup steps made on obj
CleanupOf(obj) == {i \in 1..Len(tSteps) : tSteps[i].step = obj}

\* C38 as stated: when search returns or raises, no object of the session it
\* started is left open.
C38_NoSessionLeft ==
    SearchOver => \A obj \in DOMAIN Session : Session[obj] \in {"none", "closed"}

\* C38, amended: when search returns or raises, on every exit path, each
\* object the call acquired was given exactly one cleanup step; the object is
\* closed exactly when that step returned, and left behind when the step
\* raised or timed out.
C38_SessionPairing ==
    SearchOver =>
        \A obj \in DOMAIN Session :
            /\ Session[obj] # "open"
            /\ Session[obj] = "none" <=> CleanupOf(obj) = {}
            /\ Cardinality(CleanupOf(obj)) <= 1
            /\ \A i \in CleanupOf(obj) :
                   Session[obj] = "closed" <=> tSteps[i].outcome = "ok"

C38_Witness ==
    /\ qPc = "raised"
    /\ qRaised = "Exception"
    /\ qGotos = 0
    /\ Session = [context |-> "closed", browser |-> "closed",
                  playwright |-> "closed"]

-----------------------------------------------------------------------------
(* GoogleMapsScraper._scroll_results *)

othersS == <<sinkVars, valVars, filtVars, orchVars, callVars, panelVars,
             searchVars, poolVars, raceVars, lateVars>>

\* google_maps.py:404: max_attempts
max_attempts == 30

\* Variant of NoMoreResults: two unchanged counts end the loop
NoMoreResults_two(attempts) == attempts >= 2

\* google_maps.py:416: if scroll_attempts >= 3
NoMoreResults(attempts) == attempts >= 3

\* google_maps.py:397-404: the container is looked up; without it
\* _scroll_results returns at once
SEnter ==
    /\ sPc = "idle"
    /\ prev_count' = 0
    /\ scroll_attempts' = 0
    /\ sPc' = IF results_container THEN "count" ELSE "done"
    /\ UNCHANGED <<results_container, max_results, sCount, sSeen, sScrolls,
                   othersS>>

\* google_maps.py:406-423: one turn of the loop up to the scroll; the loop
\* is left by its condition or by one of the two break statements
SCount ==
    /\ sPc = "count"
    /\ IF ~(scroll_attempts < max_attempts)
       THEN /\ sPc' = "done"
            /\ UNCHANGED <<prev_count, scroll_attempts, sSeen>>
       ELSE LET current_count == sCount
            IN  /\ sSeen' = Append(sSeen, current_count)
                /\ IF current_count >= max_results
                   THEN /\ sPc' = "done"
                        /\ UNCHANGED <<prev_count, scroll_attempts>>
                   ELSE IF current_count = prev_count
                   THEN /\ scroll_attempts' = scroll_attempts + 1
                        /\ IF NoMoreResults(scroll_attempts + 1)
                           THEN sPc' = "done" /\ UNCHANGED prev_count
                           ELSE sPc' = "scroll" /\ prev_count' = current_count
                   ELSE /\ scroll_attempts' = 0
                        /\ prev_count' = current_count
                        /\ sPc' = "scroll"
    /\ UNCHANGED <<results_container, max_results, sCount, sScrolls, othersS>>

\* google_maps.py:425-427: the container is scrolled to its bottom and the
\* page holds n anchors one second later
SScroll(n) ==
    /\ sPc = "scroll"
    /\ sScrolls < MaxScrolls
    /\ sCount' = n
    /\ sScrolls' = sScrolls + 1
    /\ sPc' = "count"
    /\ UNCHANGED <<results_container, max_results, prev_count,
                   scroll_attempts, sSeen, othersS>>

\* A page with or without the feed, holding some anchors
ScrollInit ==
    /\ results_container \in BOOLEAN
    /\ max_results \in 1..MaxResults
    /\ sCount \in 0..MaxHandles
    /\ prev_count = 0
    /\ scroll_attempts = 0
    /\ sPc = "idle"
    /\ sSeen = <<>>
    /\ sScrolls = 0
    /\ SearchIdle
    /\ PoolIdle
    /\ RaceIdle
    /\ LateIdle
    /\ FilterIdle
    /\ OrchIdle
    /\ CallIdle
    /\ PanelIdle
    /\ ValIdle({TRUE}, {<<>>})
    /\ SinkIdle({<<Header>>})

ScrollNext ==
    \/ SEnter
    \/ SCount
    \/ \E n \in 0..MaxHandles : SScroll(n)

ScrollSpec == ScrollInit /\ [][ScrollNext]_vars

\* google_maps.py:425-427 on a page whose list keeps changing: after each
\* scroll it holds one anchor more, and none again after MaxHandles
SScrollChanging ==
    /\ sPc = "scroll"
    /\ sScrolls <= max_attempts
    /\ sCount' = (sCount + 1) % (MaxHandles + 1)
    /\ sScrolls' = sScrolls + 1
    /\ sPc' = "count"
    /\ UNCHANGED <<results_container, max_results, prev_count,
                   scroll_attempts, sSeen, othersS>>

ChangingNext ==
    \/ SEnter
    \/ SCount
    \/ SScrollChanging

\* _scroll_results on a page whose count changes with every scroll
ChangingSpec == ScrollInit /\ [][ChangingNext]_vars

-----------------------------------------------------------------------------
(* Claims on _scroll_results *)

\* The count the k-th count is compared with: the one before it, 0 for the
\* first
CountBefore(k) == IF k = 1 THEN 0 ELSE sSeen[k - 1]

\* The last count has reached max_results
ReachedMax == sSeen # <<>> /\ sSeen[Len(sSeen)] >= max_results

\* The last three counts each equal the count before
UnchangedThrice ==
    /\ Len(sSeen) >= 3
    /\ \A k \in (Len(sSeen) - 2)..Len(sSeen) : sSeen[k] = CountBefore(k)

\* C30: the scroll loop is left exactly when the count just taken has reached
\* max_results or the last 3 counts taken each equal the count before (0
\* before the first): a loop that was left satisfies one of the two, and a
\* loop that goes on to scroll satisfies neither.
C30_PaginationStop ==
    /\ (sPc = "done" /\ results_container) => (ReachedMax \/ UnchangedThrice)
    /\ sPc = "scroll" => ~(ReachedMax \/ UnchangedThrice)

C30_Witness ==
    /\ sPc = "done"
    /\ max_results = 3
    /\ sSeen = <<1, 2, 2, 2, 2>>
    /\ sScrolls = 4

\* C31: whatever counts the page shows, _scroll_results makes at most
\* max_attempts (30) scrolls.
C31_ScrollCeiling == sScrolls <= max_attempts

-----------------------------------------------------------------------------
(* GoogleMapsScraper.search and the module's ThreadPoolExecutor *)

othersW == <<sinkVars, valVars, filtVars, orchVars, callVars, panelVars,
             searchVars, raceVars, scrollVars, lateVars>>

\* google_maps.py:64: ThreadPoolExecutor(max_workers=2)
max_workers == 2

\* The callers whose _search_impl is being executed by a worker
Running == {c \in DOMAIN wState : wState[c] = "running"}

\* Variant of WorkerFree: a submitted call is run at once
WorkerFree_always(running) == TRUE

\* ThreadPoolExecutor(max_workers=2): the pool has at most max_workers
\* threads, each running one work item at a time
WorkerFree(running) == Cardinality(running) < max_workers

\* google_maps.py:210: _executor.submit(self._search_impl, query, max_results)
WSubmit(c) ==
    /\ wState[c] \in {"idle", "done"}
    /\ wState' = [wState EXCEPT ![c] = "queued"]
    /\ wQueue' = Append(wQueue, c)
    /\ UNCHANGED othersW

\* A worker of the pool takes the oldest submitted call and runs _search_impl
WRun ==
    /\ wQueue # <<>>
    /\ WorkerFree(Running)
    /\ wState' = [wState EXCEPT ![Head(wQueue)] = "running"]
    /\ wQueue' = Tail(wQueue)
    /\ UNCHANGED othersW

\* google_maps.py:211: _search_impl returned or raised, future.result() gives
\* the caller the records or the exception
WResult(c) ==
    /\ wState[c] = "running"
    /\ wState' = [wState EXCEPT ![c] = "done"]
    /\ UNCHANGED <<wQueue, othersW>>

\* 1..MaxCallers threads that call search, any number of times each
PoolInit ==
    /\ wState \in {[c \in 1..n |-> "idle"] : n \in 1..MaxCallers}
    /\ wQueue = <<>>
    /\ SearchIdle
    /\ RaceIdle
    /\ ScrollIdle
    /\ LateIdle
    /\ FilterIdle
    /\ OrchIdle
    /\ CallIdle
    /\ PanelIdle
    /\ ValIdle({TRUE}, {<<>>})
    /\ SinkIdle({<<Header>>})

PoolNext ==
    \/ \E c \in DOMAIN wState : WSubmit(c)
    \/ WRun
    \/ \E c \in DOMAIN wState : WResult(c)

PoolSpec == PoolInit /\ [][PoolNext]_vars

-----------------------------------------------------------------------------
(* Claims on the executor *)

\* The callers that wait for a worker
Waiting == {c \in DOMAIN wState : wState[c] = "queued"}

\* C23: whatever the number of threads calling search, at most 2 executions of
\* _search_impl are under way at any time; a call starts only when fewer than
\* 2 are under way, and until then it waits in the executor's queue.
C23_AtMostTwoSessions ==
    /\ [](Cardinality(Running) <= 2)
    /\ [](Waiting = {wQueue[k] : k \in 1..Len(wQueue)})
    /\ [][\A c \in DOMAIN wState :
            (wState[c] # "running" /\ wState'[c] = "running") =>
                /\ Cardinality(Running) < 2
                /\ wState[c] = "queued"]_vars

C23_Witness ==
    /\ Cardinality(Running) = 2
    /\ Cardinality(Waiting) = 2
    /\ Len(wQueue) = 2

-----------------------------------------------------------------------------
(* Two calls of SheetsWriter.append on one worksheet *)

othersR == <<sinkHist, valVars, filtVars, orchVars, callVars, panelVars,
             searchVars, poolVars, scrollVars, lateVars>>

Writers == {1, 2}

\* The records the two writers are given: one for each URL
RaceClinics == {c \in Clinics : c.url # "" /\ ~(c.name = "b" /\ c.url = "u1")}

\* The worksheets the race starts from: those an append of this pipeline
\* leaves behind
RaceSheets ==
    {Written(<<Header>>, clinics) : clinics \in SeqsUpTo(RaceClinics, MaxRaceRows)}

\* sheets_writer.py:178-183 when the worksheet holds `current` and append
\* read `values` before: the update goes to the row computed from `values`
WrittenOver(current, values, clinics) ==
    IF new_rows(values, clinics) # <<>>
    THEN UpdateAt(current, StartRow(Scan(values).last_data_row),
                  new_rows(values, clinics))
    ELSE current

\* sheets_writer.py:104: writer w reads the worksheet
RRead(w) ==
    /\ rPc[w] = "idle"
    /\ rValues' = [rValues EXCEPT ![w] = sheet]
    /\ rPc' = [rPc EXCEPT ![w] = "read"]
    /\ rOverlap' = (rOverlap \/ \E v \in Writers \ {w} : rPc[v] = "read")
    /\ UNCHANGED <<sheet, rIn, othersR>>

\* sheets_writer.py:107-185: writer w scans and stages from what it read, and
\* updates the worksheet
RWrite(w) ==
    /\ rPc[w] = "read"
    /\ sheet' = WrittenOver(sheet, rValues[w], rIn[w])
    /\ rPc' = [rPc EXCEPT ![w] = "done"]
    /\ UNCHANGED <<rIn, rValues, rOverlap, othersR>>

\* Two writers, each about to call append once
RaceInit ==
    /\ rPc = [w \in Writers |-> "idle"]
    /\ rIn \in [Writers -> SeqsUpTo(RaceClinics, MaxRaceBatch)]
    /\ rValues = [w \in Writers |-> <<>>]
    /\ rOverlap = FALSE
    /\ SinkIdle(RaceSheets)
    /\ SearchIdle
    /\ PoolIdle
    /\ ScrollIdle
    /\ LateIdle
    /\ FilterIdle
    /\ OrchIdle
    /\ CallIdle
    /\ PanelIdle
    /\ ValIdle({TRUE}, {<<>>})

RaceNext ==
    \/ \E w \in Writers : RRead(w)
    \/ \E w \in Writers : RWrite(w)

RaceSpec == RaceInit /\ [][RaceNext]_vars

-----------------------------------------------------------------------------
(* Claims on concurrent appends *)

\* Two data rows of the worksheet carry the same number
SharedNo ==
    \E i, j \in ValidIdx(sheet) : i # j /\ sheet[i].no = sheet[j].no

\* Two data rows of the worksheet carry the same URL
SharedUrl == ~DistinctUrls(sheet)

\* A row writer w wrote is no longer where w wrote it
Overwritten(w) ==
    /\ rPc[w] = "done"
    /\ LET staged == new_rows(rValues[w], rIn[w])
           start == Scan(rValues[w]).last_data_row + 1
       IN  \E k \in 1..Len(staged) :
               \/ Len(sheet) < start + k - 1
               \/ sheet[start + k - 1].url # staged[k].url
               \/ sheet[start + k - 1].name # staged[k].name
               \/ sheet[start + k - 1].no # staged[k].no

RaceDamage == SharedUrl \/ SharedNo \/ \E w \in Writers : Overwritten(w)

\* C24: two appends on a worksheet this pipeline filled can leave two data
\* rows with one URL or one number, or rows of one writer overwritten by the
\* other, and they do so only when both had read the worksheet before either
\* wrote.
C24_UnprotectedReadWrite == RaceDamage => rOverlap

C24_Witness ==
    /\ rOverlap
    /\ \A w \in Writers : rPc[w] = "done"
    /\ SharedUrl
    /\ \E w \in Writers : Overwritten(w)


-----------------------------------------------------------------------------
(* GoogleMapsScraper._search_impl: the loop over the listing anchors *)

othersM == <<sinkVars, valVars, filtVars, orchVars, callVars, panelVars,
             searchVars, poolVars, raceVars, scrollVars, clickVars,
             againVars>>

\* Variant of Taken: every anchor found is gone through
Taken_all(results, limit) == results

\* google_maps.py:298: results[:max_results]
Taken(results, limit) ==
    SubSeq(results, 1, IF Len(results) < limit THEN Len(results) ELSE limit)

\* How _extract_clinic_info on one anchor ends: it returns a Clinic, it
\* returns None, it raises
Extractions == {"record", "none", "raises"}

\* google_maps.py:292-296: the anchors are queried once, after the scroll;
\* anchor k is the k-th of the page
MQuery(n, limit) ==
    /\ mPc = "idle"
    /\ mResults' = [k \in 1..n |-> k]
    /\ mMaxResults' = limit
    /\ mPc' = "loop"
    /\ UNCHANGED <<mI, mClinics, mOutcomes, othersM>>

\* google_maps.py:298-308: one turn of the loop. The record is appended if
\* there is one; None is passed over; an exception is logged and the loop
\* goes on
MExtract(outcome) ==
    /\ mPc = "loop"
    /\ mI < Len(Taken(mResults, mMaxResults))
    /\ LET result == Taken(mResults, mMaxResults)[mI + 1]
       IN /\ mClinics' = IF outcome = "record" THEN Append(mClinics, result)
                         ELSE mClinics
          /\ mOutcomes' = Append(mOutcomes,
                                 [result |-> result, outcome |-> outcome])
    /\ mI' = mI + 1
    /\ UNCHANGED <<mResults, mMaxResults, mPc, othersM>>

\* google_maps.py:298 and 319-322: the anchors taken are exhausted
MReturn ==
    /\ mPc = "loop"
    /\ mI = Len(Taken(mResults, mMaxResults))
    /\ mPc' = "returned"
    /\ UNCHANGED <<mResults, mMaxResults, mI, mClinics, mOutcomes, othersM>>

LoopInit ==
    /\ LoopIdle
    /\ ClickIdle
    /\ AgainIdle
    /\ SearchIdle
    /\ PoolIdle
    /\ RaceIdle
    /\ ScrollIdle
    /\ FilterIdle
    /\ OrchIdle
    /\ CallIdle
    /\ PanelIdle
    /\ ValIdle({TRUE}, {<<>>})
    /\ SinkIdle({<<Header>>})

LoopNext ==
    \/ \E n \in 0..MaxListed, limit \in 1..MaxResults : MQuery(n, limit)
    \/ \E outcome \in Extractions : MExtract(outcome)
    \/ MReturn

\* The extraction of a page of results, whatever each anchor gives
LoopSpec == LoopInit /\ [][LoopNext]_vars

-----------------------------------------------------------------------------
(* Claims on the loop over the listing anchors *)

\* The anchors among the first k of the page that gave a record, in order
RECURSIVE Recorded(_)
Recorded(k) ==
    IF k = 0 THEN <<>>
    ELSE IF mOutcomes[k].outcome = "record"
         THEN Append(Recorded(k - 1), mResults[k])
         ELSE Recorded(k - 1)

\* The number of anchors search is to go through
Due == IF Len(mResults) < mMaxResults THEN Len(mResults) ELSE mMaxResults

\* C32: the loop goes through the first max_results anchors only, in page
\* order, and gives at most max_results records; an anchor whose extraction
\* raised or gave None is the only one without a record, and the loop goes
\* through every anchor after it.
C32_MultiExtraction ==
    /\ Len(mOutcomes) <= Due
    /\ \A k \in 1..Len(mOutcomes) : mOutcomes[k].result = mResults[k]
    /\ mClinics = Recorded(Len(mOutcomes))
    /\ Len(mClinics) <= mMaxResults
    /\ mPc = "returned" => Len(mOutcomes) = Due

C32_Witness ==
    /\ mPc = "returned"
    /\ Len(mResults) = 3
    /\ mMaxResults = 2
    /\ mOutcomes = <<[result |-> 1, outcome |-> "raises"],
                     [result |-> 2, outcome |-> "record"]>>
    /\ mClinics = <<2>>


-----------------------------------------------------------------------------
(* GoogleMapsScraper._click_element_robust within _extract_clinic_info *)

othersK == <<sinkVars, valVars, filtVars, orchVars, callVars, searchVars,
             poolVars, raceVars, scrollVars, loopVars, againVars>>

\* Variant of Methods: the click by script comes before the forced click
Methods_swapped ==
    <<"click", "evaluate_click", "force_click", "dispatch_event",
      "mouse_click">>

\* google_maps.py:592-642: element.click, element.click(force=True),
\* element.evaluate("el => el.click()"), element.evaluate(dispatchEvent),
\* page.mouse.click at the centre of the bounding box
Methods ==
    <<"click", "force_click", "evaluate_click", "dispatch_event",
      "mouse_click">>

\* google_maps.py:584-590: the element is scrolled into view; a failure is
\* logged and the click methods are tried all the same
KScrollIntoView(ok) ==
    /\ xPc = "click"
    /\ kScroll = ""
    /\ kScroll' = IF ok THEN "ok" ELSE "failed"
    /\ UNCHANGED <<kTried, panelVars, othersK>>

\* google_maps.py:592-645, 466-469: the next click method is tried. When it
\* returns, _click_element_robust returns True; when it raises (or, for the
\* last one, when there is no bounding box) the next one is tried, and after
\* the last one _click_element_robust returns False and
\* _extract_clinic_info None
KTry(succeeds) ==
    /\ xPc = "click"
    /\ kScroll # ""
    /\ Len(kTried) < Len(Methods)
    /\ kTried' = Append(kTried, [method |-> Methods[Len(kTried) + 1],
                                 succeeded |-> succeeds])
    /\ IF succeeds
       THEN pPending' = TRUE /\ xPc' = "poll"
       ELSE /\ UNCHANGED pPending
            /\ xPc' = IF Len(kTried) + 1 = Len(Methods) THEN "null" ELSE xPc
    /\ UNCHANGED <<kScroll, pTitle, pShown, pTitleB, xName, prev_h1, attempt,
                   panel_ready, final_h1, xTimedOut, xFinalChecked, xReadFrom,
                   othersK>>

ClickNext ==
    \/ \E keep \in BOOLEAN : PanelBlanks(keep)
    \/ PanelShows
    \/ XBaseline
    \/ \E ok \in BOOLEAN : KScrollIntoView(ok)
    \/ \E succeeds \in BOOLEAN : KTry(succeeds)
    \/ XPoll
    \/ XRecheck
    \/ XTimeout
    \/ \E clicked \in BOOLEAN : XReclick(clicked)
    \/ XReread
    \/ XFinalCheck
    \/ XReadField

\* _extract_clinic_info with each click method of _click_element_robust
\* succeeding or failing
ClickSpec == PanelInit /\ [][ClickNext]_vars

-----------------------------------------------------------------------------
(* Claims on _click_element_robust *)

\* The order of the strategies: click after the move into view, forced
\* click, script click, synthetic click event, coordinate click
StrategyOrder ==
    <<"click", "force_click", "evaluate_click", "dispatch_event",
      "mouse_click">>

\* Every strategy was tried and failed
EveryMethodFailed ==
    /\ Len(kTried) = Len(StrategyOrder)
    /\ \A k \in 1..Len(kTried) : ~kTried[k].succeeded

\* C34: the strategies are tried in the fixed order; every strategy tried
\* before the last one tried failed, so the first success ends the sequence;
\* _extract_clinic_info goes on to the panel only after a success, and when
\* all five failed it returns None and no field was read.
C34_ActivationOrder ==
    /\ Len(kTried) <= Len(StrategyOrder)
    /\ \A k \in 1..Len(kTried) : kTried[k].method = StrategyOrder[k]
    /\ \A k \in 1..(Len(kTried) - 1) : ~kTried[k].succeeded
    /\ (kTried # <<>> /\ kTried[Len(kTried)].succeeded) <=>
           xPc \notin {"idle", "click"} /\ ~EveryMethodFailed
    /\ (kTried # <<>> /\ ~kTried[Len(kTried)].succeeded /\ ~EveryMethodFailed) =>
           xPc = "click"
    /\ EveryMethodFailed => xPc = "null" /\ xReadFrom = <<>>

C34_Witness ==
    /\ xPc = "returned"
    /\ kScroll = "failed"
    /\ Len(kTried) = 3
    /\ kTried[3].succeeded
    /\ xReadFrom # <<>>


-----------------------------------------------------------------------------
(* SheetsWriter.append under @retry: an update applied in part, a second call *)

othersA == <<valVars, filtVars, orchVars, panelVars, searchVars, poolVars,
             raceVars, scrollVars, loopVars, clickVars>>

\* sheet.update(f"A{start_row}", new_rows) applied in part: the first k of
\* the staged rows are on the worksheet, the others are not
UpdatePartly(values, start_row, staged, k) ==
    UpdateAt(values, start_row, SubSeq(staged, 1, k))

\* sheets_writer.py:104-183: the rows are read and staged, and sheet.update
\* raises after the backend applied a part of it
AWritePartly(k) ==
    /\ Attempting /\ Configured
    /\ LET staged == new_rows(sheet, aIn)
       IN  /\ k < Len(staged)
           /\ sheet' = UpdatePartly(sheet,
                                    StartRow(Scan(sheet).last_data_row),
                                    staged, k)
    /\ aReads' = aReads + 1
    /\ aWrites' = aWrites + 1
    /\ AttemptEnds("APIError")
    /\ UNCHANGED <<spreadsheet_id, credentials, aIn, aRet, aCalls,
                   sinkHist, othersA>>

\* routes/scrape.py:195 in a later run: after an append that raised, append is
\* called again with the same records
ACallAgain ==
    /\ aPc = "raised"
    /\ aCalls < MaxAppendCalls
    /\ aCalls' = aCalls + 1
    /\ aPc' = "idle"
    /\ aAttempt' = 1
    /\ aRaised' = ""
    /\ UNCHANGED <<spreadsheet_id, credentials, aIn, aRet, aReads, aWrites,
                   sinkVars, othersA>>

\* A configured SheetsWriter and records that all carry a URL (a record
\* without one is never staged)
ResumeInit ==
    /\ AttemptInit
    /\ Configured
    /\ \A k \in 1..Len(aIn) : aIn[k].url # ""

ResumeNext ==
    \/ AReadFails
    \/ \E applied \in BOOLEAN : AWriteFails(applied)
    \/ \E k \in 1..MaxCallBatch : AWritePartly(k)
    \/ AReturns
    \/ ACallAgain

\* Appends of the same records on a backend that fails before the read or
\* at the update, the update applied in full, in part or not at all
ResumeSpec == ResumeInit /\ [][ResumeNext]_vars

-----------------------------------------------------------------------------
(* Claims on repeated appends *)

\* The data rows of `values` carry the numbers 1, 2, ... from top to bottom
Numbered(values) ==
    \A i \in ValidIdx(values) :
        values[i].no = ToString(Cardinality({j \in ValidIdx(values) : j <= i}))

\* An attempt failed at its update, whatever the backend had applied of it
FailedAtUpdate == aWrites > 0 \/ aReads > 1

\* C36: when attempts of append failed at the update, applied in full, in
\* part (some of the staged rows) or not at all, and append is attempted
\* again with the same records until it returns, the sheet holds every URL of
\* the records on exactly one data row, provided its data rows carried
\* distinct URLs before; and its data rows are numbered 1, 2, ... provided
\* they were before. Both also hold of the sheet each failed attempt leaves.
C36_RetrySafe ==
    /\ distinct0 => DistinctUrls(sheet)
    /\ Numbered(before) => Numbered(sheet)
    /\ (aPc = "returned" /\ distinct0) =>
           \A u \in UrlsIn(aIn) : Cardinality(RowsWith(sheet, u)) = 1

C36_Witness ==
    /\ aPc = "returned"
    /\ before = <<Header>>
    /\ Len(aIn) = 2
    /\ aCalls = 2
    /\ aWrites = 2
    /\ aRet = 1
    /\ Len(sheet) = 3
    /\ sheet[3].no = "2"
    /\ sheet[3].url = "u3"


-----------------------------------------------------------------------------
(* scrape.generate on a validator that returns one entry per judgment *)

\* The judgments the service may give on `records`: each names a record by
\* its place and says valid or not; a record may be named twice or not at all
Answers(records) ==
    SeqsUpTo([index : 1..Len(records), valid : BOOLEAN], MaxAnswers)

\* claude_validator.py:194-214: validate_batch returns one entry for each
\* judgment of the answer, in the order of the answer
EntriesOf(records, answer) ==
    [k \in 1..Len(answer) |->
        Validated(records[answer[k].index], answer[k].valid)]

\* scrape.py:166-184: validate_batch returns the entries of the answer
OValidateMerged(answer) ==
    /\ oPc = "validate"
    /\ LET validated == EntriesOf(oClinics, answer)
           valid_clinics == SelectSeq(validated, LAMBDA c : c.is_valid)
       IN  /\ oClinics' = valid_clinics
           /\ IF Skip(valid_clinics)
              THEN /\ events' = events \o <<Log("validated", "", 0),
                                            Log("skip", "validate", 0)>>
                   /\ oPc' = "finally"
              ELSE /\ events' = events
                                \o <<Log("validated", "", Len(valid_clinics))>>
                   /\ oPc' = "append"
    /\ UNCHANGED <<regions, oI, total_found, total_excluded, total_new,
                   all_valid_clinics, sinkVars, valVars, filtVars,
                   callVars, panelVars, moreVars>>

TotalsNext ==
    \/ OBegin
    \/ \E ok \in BOOLEAN : OSetup(ok)
    \/ ORegion
    \/ \E e \in {"ScrapingError", "Exception"} : OSearchFails(e)
    \/ \E found \in SearchResults : OSearch(found)
    \/ OFilter
    \/ \E answer \in Answers(oClinics) : OValidateMerged(answer)
    \/ OAppend
    \/ \E e \in {"SheetsError", "Exception"} : OAppendFails(e)
    \/ OFinally
    \/ OComplete

\* generate with a reasoning service whose answers name any records
TotalsSpec == OrchInit /\ [][TotalsNext]_vars

-----------------------------------------------------------------------------
(* Claims on the totals of scrape.generate *)

\* The complete events yielded so far
Completes == {k \in 1..Len(events) : events[k].type = "complete"}

\* C37: at every point of a run, and in the complete event,
\* new_count <= valid_count <= total_found - excluded_count.
C37_TotalsOrdering ==
    /\ total_new <= Len(all_valid_clinics)
    /\ Len(all_valid_clinics) <= total_found - total_excluded
    /\ \A k \in Completes :
           /\ events[k].new_count <= events[k].valid_count
           /\ events[k].valid_count
                 <= events[k].total_found - events[k].excluded_count

====
